---- MODULE Spec2Model ----
(***************************************************************************)
(* A model of the deal pipeline of the SavingsGuru scraper:                *)
(*   - scraper/models.py          AmazonProduct, Deal, ScrapingSession     *)
(*   - scraper/deal_manager.py    DealManager (catalog lifecycle)          *)
(*   - scraper/focused_scraper.py FocusedScraper (resolution orchestrator) *)
(* Python values are modelled as follows.  Optional[x] is a sequence of    *)
(* length 0 (None) or 1.  A text is the sequence of its words, the empty   *)
(* string the empty sequence.  An ISO timestamp string is a record [iso, t]: *)
(* iso says whether datetime.fromisoformat accepts it, t is the hour it    *)
(* denotes (and its rank in string order).  A call that raises returns a   *)
(* record whose field raised is TRUE.                                      *)
(***************************************************************************)
EXTENDS Integers, Sequences, FiniteSets, TLC

VARIABLES
    now,             \* datetime.utcnow(), in hours
    \* DealManager
    file,            \* the catalog document on disk (public/deals.json)
    existing_deals,  \* DealManager.existing_deals
    existing_asins,  \* DealManager.existing_asins
    call,            \* the last call made on the manager: arguments and outcome
    \* FocusedScraper.get_real_product_data
    asins,           \* the argument: the identifiers to resolve
    pc,              \* where the call stands: "idle", "paapi", "scrape", "done"
    idx,             \* the position in asins of the identifier being resolved
    results,         \* the dict being built: identifier -> Optional[AmazonProduct]
    session,         \* FocusedScraper.session (ScrapingSession)
    stats,           \* FocusedScraper.stats
    log,             \* the calls made to the two clients, in order, with what came back
    \* Deal.from_amazon_product
    amazon_product,  \* the argument amazon_product
    savingsguru_post,\* the argument savingsguru_post (Optional)
    made,            \* the outcome of the call
    \* AmazonAPIClient
    clock,               \* time.time(), in ticks of half a second
    _last_request_time,  \* AmazonAPIClient._last_request_time
    api_calls,           \* the calls of get_product_info so far: when each began and ended
    api_call,            \* the last call of get_product_info: arguments and outcome
    tasks,               \* the tasks that call get_product_info concurrently: where each is
    \* AmazonScrapingClient.scrape_product
    scrape,              \* the call in progress: its position, its attempt, what it did so far
    \* The process and FocusedScraper.scrape_deals
    environ,         \* os.environ: variable name -> Optional[str]
    boot,            \* the start of the process: entry point, position, the Settings built
    run,             \* the call of scrape_deals: its position and what it delivered
    mark             \* a call of _mark_featured_deals on its own: argument and result

mgr_vars == <<file, existing_deals, existing_asins, call>>
res_vars == <<asins, pc, idx, results, session, stats, log>>
fac_vars == <<amazon_product, savingsguru_post, made>>
api_vars == <<clock, _last_request_time, api_calls, api_call>>
cli_vars == <<api_vars, scrape>>
run_vars == <<environ, boot, run, mark>>
vars == <<now, tasks, mgr_vars, res_vars, fac_vars, cli_vars, run_vars>>

----------------------------------------------------------------------------
(* Bounds of the model *)

MaxFile == 2      \* entries of the catalog document
MaxBatch == 2     \* entries of a new batch handed to process_deals
MaxList == 3      \* entries of a list handed to one filter method
MaxAsins == 2     \* identifiers handed to get_real_product_data
MaxCalls == 2     \* calls of get_product_info on one client
MaxWait == 2      \* ticks that a call of get_items, or the pause before a call, may last
MaxMarked == 22   \* entries with a high discount in a list handed to _mark_featured_deals
MaxTasks == 2     \* tasks that call get_product_info on one client concurrently
MaxClock == 8     \* the time up to which a task may begin its call, in ticks

(* Settings (scraper/settings.py).  target_deal_count is scaled down from  *)
(* its default of 120; the other two keep their defaults.                  *)
target_deal_count == 2
deal_freshness_hours == 24
min_deal_discount == 10
api_rate_limit_delay == 2   \* 1.0 second, in ticks of half a second
scraper_delay_min == 2      \* 1.0 second
scraper_delay_max == 6      \* 3.0 seconds
max_retry_attempts == 3

\* len(asin) != 10 (amazon_api.py, scraper_fallback.py, AmazonProduct.asin)
AsinLength == 10

----------------------------------------------------------------------------
(* Python values *)

None == <<>>
Some(v) == <<v>>
Truthy(x) == x # None /\ x[1] # 0          \* bool(x) of an Optional[int]
OrZero(x) == IF Truthy(x) THEN x[1] ELSE 0 \* (x or 0)

SeqsUpTo(S, n) == UNION {[1..k -> S] : k \in 0..n}

Asins == {"A", "B", "C"}

Old == [iso |-> TRUE, t |-> 2]          \* 48 hours before now
Recent == [iso |-> TRUE, t |-> 49]      \* 1 hour before now
Unparsable == [iso |-> FALSE, t |-> 0]  \* not an ISO timestamp
Dates == {Old, Recent, Unparsable}
NowValues == {50}

PartnerTag == "tag-20"
ImageUrl == "https://example.com/image.jpg"
AffiliateUrl(a, tag) == <<"https://www.amazon.ca/dp/", a, "?tag=", tag>>

\* A Deal with the fields that matter to the catalog, the others at fixed values.
MkDeal(a, p, d, f, t) ==
    [id |-> <<"deal", a>>, title |-> "Title", image_url |-> Some(ImageUrl),
     price |-> p, original_price |-> None, discount_percent |-> d,
     category |-> "General", description |-> <<"Description">>,
     affiliate_url |-> AffiliateUrl(a, PartnerTag), featured |-> f,
     date_added |-> t, data_source |-> "PAAPI", asin |-> a]

----------------------------------------------------------------------------
(* scraper/models.py: Deal *)

\* Deal(**deal_data): the field constraints of the model (image_url required,
\* price ge=0, original_price ge=0 and discount_percent ge=0 le=100 when present).
ValidDeal(d) ==
    /\ d.image_url # None
    /\ d.price >= 0
    /\ (d.original_price # None => d.original_price[1] >= 0)
    /\ (d.discount_percent # None => d.discount_percent[1] \in 0..100)

\* The values of a JSON document.
JStr(v) == [j |-> "str", v |-> v]
JNum(n) == [j |-> "num", v |-> n]
JBool(b) == [j |-> "bool", v |-> b]
JNull == [j |-> "null"]
JOptNum(x) == IF x = None THEN JNull ELSE JNum(x[1])
JOptStr(x) == IF x = None THEN JNull ELSE JStr(x[1])

DataSourceValues == {"PAAPI", "SCRAPED", "FALLBACK", "UNKNOWN"}

\* A document entry keyed by the names the frontend uses.
DumpDealCamelCase(deal) ==
    [id |-> JStr(deal.id), title |-> JStr(deal.title), imageUrl |-> JOptStr(deal.image_url),
     price |-> JNum(deal.price), originalPrice |-> JOptNum(deal.original_price),
     discountPercent |-> JOptNum(deal.discount_percent), category |-> JStr(deal.category),
     description |-> JStr(deal.description), affiliateUrl |-> JStr(deal.affiliate_url),
     featured |-> JBool(deal.featured), dateAdded |-> JStr(deal.date_added),
     dataSource |-> JStr(deal.data_source), asin |-> JStr(deal.asin)]

\* deal.dict() as json.dump(..., default=str) writes it: the keys are the field
\* names; a str, and a member of DataSource (a str), is written as a string, a
\* number as a number, a bool as a bool, None as null, and a URL through str().
DumpDeal(deal) ==
    [id |-> JStr(deal.id), title |-> JStr(deal.title), image_url |-> JOptStr(deal.image_url),
     price |-> JNum(deal.price), original_price |-> JOptNum(deal.original_price),
     discount_percent |-> JOptNum(deal.discount_percent), category |-> JStr(deal.category),
     description |-> JStr(deal.description), affiliate_url |-> JStr(deal.affiliate_url),
     featured |-> JBool(deal.featured), date_added |-> JStr(deal.date_added),
     data_source |-> JStr(deal.data_source), asin |-> JStr(deal.asin)]

\* [deal.dict() for deal in final_deals], written by save_json_file.
DumpDeals(deals) == [i \in 1..Len(deals) |-> DumpDeal(deals[i])]

RequiredFields ==
    {"id", "title", "image_url", "price", "category", "description", "affiliate_url",
     "date_added", "data_source", "asin"}
StrFields == RequiredFields \ {"price"}

\* A key that may be missing or null.
OptNumOf(deal_data, k) ==
    IF k \in DOMAIN deal_data /\ deal_data[k].j = "num" THEN Some(deal_data[k].v) ELSE None

\* Deal(**deal_data): a required key that is missing or of the wrong type, a
\* data_source that is no value of DataSource, or a value outside the field
\* constraints raises ValidationError; a key that is no field is ignored.
ParseDeal(deal_data) ==
    IF \/ ~(RequiredFields \subseteq DOMAIN deal_data)
       \/ \E k \in StrFields : deal_data[k].j # "str"
       \/ deal_data.price.j # "num"
       \/ \E k \in {"original_price", "discount_percent"} \cap DOMAIN deal_data :
              deal_data[k].j \notin {"num", "null"}
       \/ ("featured" \in DOMAIN deal_data /\ deal_data.featured.j # "bool")
    THEN [raised |-> TRUE, ret |-> None]
    ELSE IF deal_data.data_source.v \notin DataSourceValues
    THEN [raised |-> TRUE, ret |-> None]
    ELSE LET deal == [id |-> deal_data.id.v, title |-> deal_data.title.v,
                      image_url |-> Some(deal_data.image_url.v),
                      price |-> deal_data.price.v,
                      original_price |-> OptNumOf(deal_data, "original_price"),
                      discount_percent |-> OptNumOf(deal_data, "discount_percent"),
                      category |-> deal_data.category.v,
                      description |-> deal_data.description.v,
                      affiliate_url |-> deal_data.affiliate_url.v,
                      featured |-> IF "featured" \in DOMAIN deal_data
                                   THEN deal_data.featured.v ELSE FALSE,
                      date_added |-> deal_data.date_added.v,
                      data_source |-> deal_data.data_source.v, asin |-> deal_data.asin.v]
         IN IF ValidDeal(deal) THEN [raised |-> FALSE, ret |-> Some(deal)]
            ELSE [raised |-> TRUE, ret |-> None]

\* The loop of load_existing_deals over the first n entries: an entry that
\* raises is skipped with a warning.
RECURSIVE ParsedDeals(_, _)
ParsedDeals(deals_data, n) ==
    IF n = 0 THEN <<>>
    ELSE LET D == ParseDeal(deals_data[n])
         IN IF D.raised THEN ParsedDeals(deals_data, n - 1)
            ELSE Append(ParsedDeals(deals_data, n - 1), D.ret[1])

\* getattr on a Deal: a name that is no field of the model raises AttributeError.
HasAttr(deal, name) == name \in DOMAIN deal

\* datetime.fromisoformat(s): raises ValueError on a string that is no ISO timestamp.
fromisoformat(s) == [raised |-> ~s.iso, t |-> s.t]

----------------------------------------------------------------------------
(* scraper/deal_manager.py: DealManager *)

\* The attribute names the manager reads.
FreshnessAttr == "dateAdded"
DiscountAttr == "discountPercent"

AbsentFile == [kind |-> "absent", entries |-> <<>>]
CorruptFile == [kind |-> "corrupt", entries |-> <<>>]
OkFile(es) == [kind |-> "ok", entries |-> es]

load_existing_deals(f, deals0, asins0) ==
    IF f.kind = "absent" \/ f.kind = "corrupt"
    THEN [ret |-> <<>>, existing_deals |-> deals0, existing_asins |-> asins0]
    ELSE LET deals == ParsedDeals(f.entries, Len(f.entries))
         IN [ret |-> deals, existing_deals |-> deals,
             existing_asins |-> {deals[i].asin : i \in 1..Len(deals)}]

\* The body of the loop of filter_fresh_deals: is the deal appended?
KeepFresh(deal, cutoff_time) ==
    IF ~HasAttr(deal, FreshnessAttr) THEN TRUE
    ELSE LET p == fromisoformat(deal[FreshnessAttr])
         IN IF p.raised THEN TRUE ELSE p.t > cutoff_time

filter_fresh_deals(deals, utcnow) ==
    LET cutoff_time == utcnow - deal_freshness_hours
        Keep(d) == KeepFresh(d, cutoff_time)
    IN SelectSeq(deals, Keep)

RECURSIVE DedupFrom(_, _, _, _)
DedupFrom(new_deals, i, unique_deals, known) ==
    IF i > Len(new_deals) THEN [ret |-> unique_deals, existing_asins |-> known]
    ELSE IF new_deals[i].asin \notin known
         THEN DedupFrom(new_deals, i + 1, Append(unique_deals, new_deals[i]),
                        known \cup {new_deals[i].asin})
         ELSE DedupFrom(new_deals, i + 1, unique_deals, known)

\* deduplicate_deals without the line that adds an accepted identifier to the set.
deduplicate_deals_no_add(new_deals, known) ==
    LET IsNew(d) == d.asin \notin known
    IN [ret |-> SelectSeq(new_deals, IsNew),
        existing_asins |-> known \cup {new_deals[i].asin : i \in 1..Len(new_deals)}]

deduplicate_deals(new_deals, known) == DedupFrom(new_deals, 1, <<>>, known)

\* The body of the loop of filter_quality_deals: is the deal appended?
KeepQuality(deal) ==
    \/ Truthy(deal[DiscountAttr]) /\ deal[DiscountAttr][1] >= min_deal_discount
    \/ ~Truthy(deal[DiscountAttr])

filter_quality_deals(deals) ==
    IF \E i \in 1..Len(deals) : ~HasAttr(deals[i], DiscountAttr)
    THEN [raised |-> TRUE, ret |-> <<>>]
    ELSE [raised |-> FALSE, ret |-> SelectSeq(deals, KeepQuality)]

\* deal_priority(a) <= deal_priority(b), as Python compares the key tuples.
PriorityLeq(a, b) ==
    LET ka == <<IF a.featured THEN 0 ELSE 1, 0 - OrZero(a[DiscountAttr]), a[FreshnessAttr].t>>
        kb == <<IF b.featured THEN 0 ELSE 1, 0 - OrZero(b[DiscountAttr]), b[FreshnessAttr].t>>
    IN \/ ka[1] < kb[1]
       \/ ka[1] = kb[1] /\ ka[2] < kb[2]
       \/ ka[1] = kb[1] /\ ka[2] = kb[2] /\ ka[3] <= kb[3]

\* sorted(all_deals, key=deal_priority): a stable sort.
RECURSIVE InsertSorted(_, _)
InsertSorted(sorted, d) ==
    IF sorted = <<>> THEN <<d>>
    ELSE IF PriorityLeq(sorted[Len(sorted)], d) THEN Append(sorted, d)
         ELSE Append(InsertSorted(SubSeq(sorted, 1, Len(sorted) - 1), d), sorted[Len(sorted)])

RECURSIVE SortedByPriority(_, _)
SortedByPriority(deals, n) ==
    IF n = 0 THEN <<>> ELSE InsertSorted(SortedByPriority(deals, n - 1), deals[n])

manage_deal_count(all_deals) ==
    IF Len(all_deals) <= target_deal_count
    THEN [raised |-> FALSE, ret |-> all_deals]
    ELSE IF \E i \in 1..Len(all_deals) :
                ~HasAttr(all_deals[i], DiscountAttr) \/ ~HasAttr(all_deals[i], FreshnessAttr)
         THEN [raised |-> TRUE, ret |-> <<>>]
         ELSE [raised |-> FALSE,
               ret |-> SubSeq(SortedByPriority(all_deals, Len(all_deals)), 1, target_deal_count)]

\* process_deals: the five stages in order.  A stage that raises ends the call;
\* what the earlier stages assigned to the manager stays.
process_deals(new_deals, f, deals0, asins0, utcnow) ==
    LET L == load_existing_deals(f, deals0, asins0)
        fresh_existing == filter_fresh_deals(L.ret, utcnow)
        D == deduplicate_deals(new_deals, L.existing_asins)
        Q == filter_quality_deals(D.ret)
        all_deals == fresh_existing \o Q.ret
        M == IF Q.raised THEN [raised |-> TRUE, ret |-> <<>>] ELSE manage_deal_count(all_deals)
    IN [fn |-> "process_deals", arg |-> new_deals, asins_before |-> asins0,
        loaded |-> L.ret, fresh |-> fresh_existing, unique |-> D.ret,
        quality |-> Q.ret, combined |-> all_deals,
        raised |-> M.raised, ret |-> M.ret,
        existing_deals |-> L.existing_deals, existing_asins |-> D.existing_asins]

----------------------------------------------------------------------------
(* Inputs *)

Discounts == {None, Some(0), Some(5), Some(10), Some(50)}

FreshInputs == {MkDeal(a, 20, None, FALSE, t) : a \in {"A", "B"}, t \in Dates}
DedupInputs == {MkDeal(a, p, None, FALSE, Recent) : a \in Asins, p \in {20, 30}}
QualityInputs == {MkDeal("A", 20, d, d = Some(50), Recent) : d \in Discounts}
CountInputs ==
    {MkDeal("A", 20, d, f, t) : d \in {None, Some(5), Some(50)}, f \in BOOLEAN, t \in {Old, Recent}}

\* An entry of a catalog document on disk, with the keys load_existing_deals
\* hands to Deal(**deal_data).
DealData(a, p, d, f, t) ==
    [id |-> JStr(<<"deal", a>>), title |-> JStr("Title"), image_url |-> JStr(ImageUrl),
     price |-> JNum(p), original_price |-> JNull, discount_percent |-> JOptNum(d),
     category |-> JStr("General"), description |-> JStr(<<"Description">>),
     affiliate_url |-> JStr(AffiliateUrl(a, PartnerTag)), featured |-> JBool(f),
     date_added |-> JStr(t), data_source |-> JStr("PAAPI"), asin |-> JStr(a)]

\* Entries of the catalog document: a price below 0 fails the validation of Deal.
PriceDatePairs == {<<20, Recent>>, <<20, Old>>, <<0, Recent>>, <<-5, Recent>>, <<20, Unparsable>>}
FileEntries == {DealData(a, pd[1], None, FALSE, pd[2]) : a \in {"A", "B"}, pd \in PriceDatePairs}
Files == {AbsentFile, CorruptFile} \cup {OkFile(es) : es \in SeqsUpTo(FileEntries, MaxFile)}

\* New entries, as Deal.from_amazon_product builds them.
NewDeals == {MkDeal(a, 20, None, FALSE, Recent) : a \in Asins}

NoCall == [fn |-> "none"]

\* A component that a specification does not exercise stays as constructed.
NewSession ==
    [total_products_attempted |-> 0, total_products_successful |-> 0,
     total_api_calls |-> 0, total_scraping_calls |-> 0, errors |-> <<>>]
NewStats ==
    [asins_found |-> 0, paapi_success |-> 0, scraping_success |-> 0, products_skipped |-> 0]

ManagerIdle ==
    /\ file = AbsentFile
    /\ existing_deals = <<>>
    /\ existing_asins = {}
    /\ call = NoCall

ScraperIdle ==
    /\ asins = <<>>
    /\ pc = "idle"
    /\ idx = 1
    /\ results = <<>>
    /\ session = NewSession
    /\ stats = NewStats
    /\ log = <<>>

FactoryIdle ==
    /\ amazon_product = None
    /\ savingsguru_post = None
    /\ made = NoCall

\* AmazonAPIClient.__init__ sets _last_request_time = 0.0; time.time() counts from
\* the epoch, so the clock starts no lower than the delay above that.
Tasks == 1..MaxTasks

\* A task that has not called get_product_info yet.
IdleTask == [pc |-> "idle", arrived |-> 0, wake |-> 0, start |-> 0, end |-> 0]

ApiIdle ==
    /\ clock = api_rate_limit_delay
    /\ _last_request_time = 0
    /\ api_calls = <<>>
    /\ api_call = NoCall
    /\ tasks = [t \in Tasks |-> IdleTask]

ScrapeIdle == scrape = NoCall

\* The variables of the environment that settings.py reads.
EnvNames == {"AMZ_ACCESS_KEY", "AMZ_SECRET_KEY", "AMZ_PARTNER_TAG", "APP_ENV"}

StartIdle ==
    /\ environ = [n \in EnvNames |-> None]
    /\ boot = NoCall
    /\ run = NoCall
    /\ mark = NoCall

ClientsIdle == ApiIdle /\ ScrapeIdle

----------------------------------------------------------------------------
(* The methods of DealManager, each called on its own (SpecFilter): one    *)
(* call, on a manager whose identifier set earlier calls have filled.      *)

InitFilter ==
    /\ ScraperIdle /\ FactoryIdle
    /\ file = AbsentFile
    /\ now \in NowValues
    /\ StartIdle
    /\ ClientsIdle
    /\ existing_deals = <<>>
    /\ existing_asins \in SUBSET Asins
    /\ call = NoCall

FilterFresh ==
    /\ call = NoCall
    /\ \E deals \in SeqsUpTo(FreshInputs, MaxList) :
        /\ call' = [fn |-> "filter_fresh_deals", arg |-> deals,
                    ret |-> filter_fresh_deals(deals, now)]
        /\ UNCHANGED <<now, tasks, run_vars, cli_vars, file, existing_deals, existing_asins, res_vars, fac_vars>>

Dedup ==
    /\ call = NoCall
    /\ \E new_deals \in SeqsUpTo(DedupInputs, MaxList) :
        LET D == deduplicate_deals(new_deals, existing_asins)
        IN /\ call' = [fn |-> "deduplicate_deals", arg |-> new_deals,
                       asins_before |-> existing_asins, ret |-> D.ret]
           /\ existing_asins' = D.existing_asins
           /\ UNCHANGED <<now, tasks, run_vars, cli_vars, file, existing_deals, res_vars, fac_vars>>

FilterQuality ==
    /\ call = NoCall
    /\ \E deals \in SeqsUpTo(QualityInputs, MaxList) :
        LET Q == filter_quality_deals(deals)
        IN /\ call' = [fn |-> "filter_quality_deals", arg |-> deals,
                       raised |-> Q.raised, ret |-> Q.ret]
           /\ UNCHANGED <<now, tasks, run_vars, cli_vars, file, existing_deals, existing_asins, res_vars, fac_vars>>

ManageCount ==
    /\ call = NoCall
    /\ \E all_deals \in SeqsUpTo(CountInputs, MaxList) :
        LET M == manage_deal_count(all_deals)
        IN /\ call' = [fn |-> "manage_deal_count", arg |-> all_deals,
                       raised |-> M.raised, ret |-> M.ret]
           /\ UNCHANGED <<now, tasks, run_vars, cli_vars, file, existing_deals, existing_asins, res_vars, fac_vars>>

NextFilter == FilterFresh \/ Dedup \/ FilterQuality \/ ManageCount

SpecFilter == InitFilter /\ [][NextFilter]_vars

----------------------------------------------------------------------------
(* The reconcile pass of DealManager (SpecManager) *)

InitManager ==
    /\ ScraperIdle /\ FactoryIdle
    /\ file \in Files
    /\ now \in NowValues
    /\ StartIdle
    /\ ClientsIdle
    /\ existing_deals = <<>>
    /\ existing_asins = {}
    /\ call = NoCall

LoadExisting ==
    LET L == load_existing_deals(file, existing_deals, existing_asins)
    IN /\ call' = [fn |-> "load_existing_deals", ret |-> L.ret]
       /\ existing_deals' = L.existing_deals
       /\ existing_asins' = L.existing_asins
       /\ UNCHANGED <<now, tasks, run_vars, cli_vars, file, res_vars, fac_vars>>

ProcessDeals ==
    \E new_deals \in SeqsUpTo(NewDeals, MaxBatch) :
        LET P == process_deals(new_deals, file, existing_deals, existing_asins, now)
        IN /\ call' = P
           /\ existing_deals' = P.existing_deals
           /\ existing_asins' = P.existing_asins
           /\ UNCHANGED <<now, tasks, run_vars, cli_vars, file, res_vars, fac_vars>>

NextManager == LoadExisting \/ ProcessDeals

SpecManager == InitManager /\ [][NextManager]_vars

----------------------------------------------------------------------------
(* Claims about DealManager *)

AsinsOf(deals) == {deals[i].asin : i \in 1..Len(deals)}

\* The subsequence of s at the indices in I.
RECURSIVE PickIndices(_, _, _)
PickIndices(s, I, n) ==
    IF n = 0 THEN <<>>
    ELSE IF n \in I THEN Append(PickIndices(s, I, n - 1), s[n])
         ELSE PickIndices(s, I, n - 1)

\* The indices of the first occurrence of each identifier that is not in asins.
FirstNew(batch, known) ==
    {i \in 1..Len(batch) :
        /\ batch[i].asin \notin known
        /\ \A j \in 1..(i - 1) : batch[j].asin # batch[i].asin}

\* C1: every entry of the catalog that process_deals returns has price > 0,
\* whatever the catalog document holds and whatever the new batch is.
C1_NoFabrication ==
    (call.fn = "process_deals" /\ ~call.raised) =>
        \A i \in 1..Len(call.ret) : call.ret[i].price > 0

\* C5: deduplicate_deals returns the subsequence of the batch made of the first
\* occurrence of each identifier that is not an existing identifier.
C5_FirstOccurrence ==
    call.fn = "deduplicate_deals" =>
        call.ret = PickIndices(call.arg, FirstNew(call.arg, call.asins_before), Len(call.arg))

\* C5: existing {A, B} and a batch [A, C, C'] give exactly [C].
C5_Witness ==
    /\ call.fn = "deduplicate_deals"
    /\ call.asins_before = {"A", "B"}
    /\ Len(call.arg) = 3
    /\ <<call.arg[1].asin, call.arg[2].asin, call.arg[3].asin>> = <<"A", "C", "C">>
    /\ call.arg[2] # call.arg[3]
    /\ call.ret = <<call.arg[2]>>

\* The entries of the batch of a process_deals call that deduplication accepted.
Accepted(c, i) ==
    /\ c.arg[i].asin \in AsinsOf(c.unique)
    /\ \A j \in 1..(i - 1) : c.arg[j].asin # c.arg[i].asin

\* C6: in process_deals a new entry is dropped by deduplication exactly when its
\* identifier is that of an existing entry the freshness filter retained or of a
\* new entry accepted earlier in the same batch.
C6_DropExactlyRetained ==
    call.fn = "process_deals" =>
        \A i \in 1..Len(call.arg) :
            ~Accepted(call, i) <=>
                \/ call.arg[i].asin \in AsinsOf(call.fresh)
                \/ \E j \in 1..(i - 1) :
                      Accepted(call, j) /\ call.arg[j].asin = call.arg[i].asin

\* C7: no two entries of the catalog that process_deals returns have the same
\* identifier.
C7_UniqueAsin ==
    (call.fn = "process_deals" /\ ~call.raised) =>
        \A i, j \in 1..Len(call.ret) : call.ret[i].asin = call.ret[j].asin => i = j

\* C8: filter_fresh_deals retains an entry exactly when its timestamp does not
\* parse or is newer than now - deal_freshness_hours.
C8_FreshnessFilter ==
    call.fn = "filter_fresh_deals" =>
        LET IsFresh(d) == ~d.date_added.iso \/ d.date_added.t > now - deal_freshness_hours
        IN call.ret = SelectSeq(call.arg, IsFresh)

\* C9: filter_quality_deals does not fail and keeps an entry exactly when its
\* discount percentage is absent or at least min_deal_discount.
C9_QualityFilter ==
    call.fn = "filter_quality_deals" =>
        LET IsQuality(d) ==
                d.discount_percent = None \/ d.discount_percent[1] >= min_deal_discount
        IN ~call.raised /\ call.ret = SelectSeq(call.arg, IsQuality)

\* C10: manage_deal_count returns at most target_deal_count entries: exactly
\* that many when it is given more, and every entry when it is given no more.
C10_CountCap ==
    call.fn = "manage_deal_count" =>
        /\ ~call.raised
        /\ Len(call.ret) <= target_deal_count
        /\ (Len(call.arg) > target_deal_count => Len(call.ret) = target_deal_count)
        /\ (Len(call.arg) <= target_deal_count => call.ret = call.arg)

\* The entries that were dropped: those that occur in arg more often than in ret.
Occurrences(s, d) == Cardinality({i \in 1..Len(s) : s[i] = d})
DroppedFrom(arg, ret) == {arg[i] : i \in {j \in 1..Len(arg) : Occurrences(arg, arg[j]) > Occurrences(ret, arg[j])}}

\* C11: when manage_deal_count is given more than target_deal_count entries it
\* returns a trimmed list in which no non-featured entry is retained while a
\* featured one is dropped, and among entries with the same featured flag no
\* entry is retained while one with a strictly higher discount percentage
\* (absent counted as 0) is dropped.
C11_TrimPriority ==
    (call.fn = "manage_deal_count" /\ Len(call.arg) > target_deal_count) =>
        /\ ~call.raised
        /\ \A i \in 1..Len(call.ret) : \A d \in DroppedFrom(call.arg, call.ret) :
              LET r == call.ret[i]
              IN /\ ~(~r.featured /\ d.featured)
                 /\ (r.featured = d.featured =>
                        OrZero(r.discount_percent) >= OrZero(d.discount_percent))

\* C24: when manage_deal_count truncates, no entry is retained while an entry
\* with the same featured flag, the same discount percentage and a newer
\* added-timestamp is dropped.
C24_NewerFirstOnTies ==
    (call.fn = "manage_deal_count" /\ Len(call.arg) > target_deal_count) =>
        /\ ~call.raised
        /\ \A i \in 1..Len(call.ret) : \A d \in DroppedFrom(call.arg, call.ret) :
              LET r == call.ret[i]
              IN (/\ r.featured = d.featured
                  /\ OrZero(r.discount_percent) = OrZero(d.discount_percent))
                     => r.date_added.t >= d.date_added.t

\* What the call would have given on a manager as __init__ leaves it.
OnFreshManager(c) == process_deals(c.arg, file, <<>>, {}, now)

\* C28: what process_deals gives depends only on the catalog document and the
\* batch: it is what a manager that made no earlier call gives, and an entry is
\* dropped as a duplicate only for an identifier loaded from the document in
\* this call or met earlier in the same batch.
C28_NoLeakBetweenPasses ==
    call.fn = "process_deals" =>
        /\ call.unique = OnFreshManager(call).unique
        /\ call.raised = OnFreshManager(call).raised
        /\ call.ret = OnFreshManager(call).ret
        /\ \A i \in 1..Len(call.arg) :
               call.arg[i].asin \notin AsinsOf(call.unique)
               => call.arg[i].asin \in AsinsOf(call.loaded)

----------------------------------------------------------------------------
(* scraper/models.py: AmazonProduct, and what the two clients hand back *)

MkProduct(a, price, list_price, discount, image, source) ==
    [asin |-> a, title |-> "Title", current_price |-> price, list_price |-> list_price,
     discount_percent |-> discount, image_url |-> image, data_source |-> source]

\* What a call of a client can come to: it raises, it returns None, or it returns
\* a product whose current price is absent, zero or positive.
ClientOutcomes(a, source) ==
    {[raised |-> TRUE, product |-> None], [raised |-> FALSE, product |-> None]}
    \cup {[raised |-> FALSE,
           product |-> Some(MkProduct(a, price, None, None, Some(ImageUrl), source))] :
             price \in {None, Some(0), Some(20)}}

----------------------------------------------------------------------------
(* Identifiers as strings.  An identifier is named by a TLA+ string; chars *)
(* gives the characters of the Python string it stands for.                *)

Rep(c, n) == [i \in 1..n |-> c]

MalformedAsins == {"", "short", "long", "dashed"}
ClientAsins == {"A", "lower"} \cup MalformedAsins

chars(a) ==
    CASE a = "" -> <<>>
      [] a = "short" -> Rep("B", AsinLength - 1)
      [] a = "long" -> Rep("B", AsinLength + 1)
      [] a = "dashed" -> Append(Rep("B", AsinLength - 1), "-")
      [] a = "lower" -> Rep("a", AsinLength)
      [] OTHER -> Rep(a, AsinLength)

\* str.isalnum and str.upper
isalnum(a) == chars(a) # <<>> /\ \A i \in 1..Len(chars(a)) : chars(a)[i] # "-"
upper(a) == IF a = "lower" THEN "A" ELSE a

\* "if not asin or len(asin) != 10" of both clients
InvalidAsinFormat(asin) == chars(asin) = <<>> \/ Len(chars(asin)) # AsinLength

----------------------------------------------------------------------------
(* scraper/models.py: AmazonProduct(...) *)

\* The constraints of the fields, and validate_asin.
ValidProduct(p) ==
    /\ Len(chars(p.asin)) = AsinLength
    /\ isalnum(p.asin)
    /\ (p.current_price # None => p.current_price[1] >= 0)
    /\ (p.list_price # None => p.list_price[1] >= 0)
    /\ (p.discount_percent # None => p.discount_percent[1] \in 0..100)

\* round(float((list_price - current_price) / list_price * 100))
DiscountOf(current_price, list_price) ==
    ((list_price - current_price) * 200 + list_price) \div (2 * list_price)

\* An except clause that lets the exception through.
Reraise(r) == r

\* "except Exception: ... return None"
ExceptReturnNone(r) == IF r.raised THEN [raised |-> FALSE, ret |-> None] ELSE r

----------------------------------------------------------------------------
(* scraper/amazon_api.py: AmazonAPIClient *)

\* What the Offers of an item hold: the Amount and the DisplayValue of the price
\* of the first listing, and the Amount of its SavingBasis.
NoListings == [listings |-> FALSE, Amount |-> None, DisplayValue |-> None, SavingBasis |-> None]
Listing(amount, display, basis) ==
    [listings |-> TRUE, Amount |-> amount, DisplayValue |-> display, SavingBasis |-> basis]
Offers ==
    {NoListings, Listing(Some(20), None, Some(40)), Listing(None, Some(20), None),
     Listing(Some(0), Some(0), None)}

\* An item of the response: one whose structure the parser cannot read, or one
\* with a title (possibly empty), offers and an image.
PaapiItems ==
    {[kind |-> "unparsable"]} \cup
    {[kind |-> "item", title |-> t, offers |-> o] : t \in {"", "Title"}, o \in Offers}

\* What amazon_api.get_items does: it raises, or it returns nothing, a response
\* without items_result, one whose items_result is None or has no items, or one
\* with an item.
PaapiResponses ==
    {[kind |-> k] : k \in {"raises", "none", "no_items_result", "items_result_none", "no_items"}}
    \cup {[kind |-> "items", item |-> it] : it \in PaapiItems}

_extract_price_from_offers(offers) ==
    IF ~offers.listings THEN None
    ELSE IF Truthy(offers.Amount) THEN offers.Amount
    ELSE IF offers.DisplayValue # None THEN offers.DisplayValue
    ELSE None

\* The try block of _parse_paapi_item.
ParseItemBody(item, asin) ==
    IF item.kind = "unparsable" THEN [raised |-> TRUE, ret |-> None]
    ELSE IF item.title = "" THEN [raised |-> FALSE, ret |-> None]
    ELSE LET current_price == _extract_price_from_offers(item.offers)
             basis == IF item.offers.listings THEN item.offers.SavingBasis ELSE None
             list_price == IF ~Truthy(basis) /\ Truthy(current_price) THEN current_price
                           ELSE basis
             discount_percent ==
                 IF Truthy(current_price) /\ Truthy(list_price) /\ list_price[1] > current_price[1]
                 THEN Some(DiscountOf(current_price[1], list_price[1])) ELSE None
             product == [asin |-> asin, title |-> item.title, current_price |-> current_price,
                         list_price |-> list_price, discount_percent |-> discount_percent,
                         image_url |-> Some(ImageUrl), data_source |-> "PAAPI"]
         IN IF ValidProduct(product)
            THEN [raised |-> FALSE, ret |-> Some([product EXCEPT !.asin = upper(asin)])]
            ELSE [raised |-> TRUE, ret |-> None]

_parse_paapi_item(item, asin) == ExceptReturnNone(ParseItemBody(item, asin))

\* The try block of get_product_info: the call of get_items and what follows.
GetItemsBody(asin, response) ==
    IF response.kind = "raises" THEN [raised |-> TRUE, ret |-> None]
    ELSE IF response.kind \in {"none", "no_items_result", "items_result_none", "no_items"}
         THEN [raised |-> FALSE, ret |-> None]
    ELSE _parse_paapi_item(response.item, asin)

\* _throttle_request that does not sleep.
_throttle_request_no_sleep(clk, last) == [clock |-> clk, last |-> clk]

\* _throttle_request: sleeps until api_rate_limit_delay has passed since
\* _last_request_time, then sets _last_request_time to the time it is.
_throttle_request(clk, last) ==
    LET time_since_last_request == clk - last
        woke == IF time_since_last_request < api_rate_limit_delay
                THEN clk + (api_rate_limit_delay - time_since_last_request)
                ELSE clk
    IN [clock |-> woke, last |-> woke]

\* get_product_info called at time clk, up to the call of get_items: the format
\* check returns at once, else the call waits in _throttle_request.
get_product_info_begin(asin, clk, last) ==
    IF InvalidAsinFormat(asin)
    THEN [fn |-> "get_product_info", pc |-> "returned", asin |-> asin,
          response |-> [kind |-> "not_called"],
          arrived |-> clk, network |-> FALSE, start |-> clk, end |-> clk,
          last |-> last, raised |-> FALSE, ret |-> None]
    ELSE LET T == _throttle_request(clk, last)
         IN [fn |-> "get_product_info", pc |-> "get_items", asin |-> asin,
             response |-> [kind |-> "pending"],
             arrived |-> clk, network |-> TRUE, start |-> T.clock, end |-> T.clock,
             last |-> T.last, raised |-> FALSE, ret |-> None]

\* The rest of get_product_info: get_items comes back after duration ticks.
get_product_info_end(c, response, duration) ==
    LET R == ExceptReturnNone(GetItemsBody(c.asin, response))
    IN [c EXCEPT !.pc = "returned", !.response = response, !.end = c.start + duration,
                 !.raised = R.raised, !.ret = R.ret]

\* get_product_info, from the call to the return.
get_product_info(asin, response, duration, clk, last) ==
    LET B == get_product_info_begin(asin, clk, last)
    IN IF B.pc = "returned" THEN B ELSE get_product_info_end(B, response, duration)

----------------------------------------------------------------------------
(* scraper/focused_scraper.py: FocusedScraper.get_real_product_data *)

\* The check both _try_paapi and _try_web_scraping make on what the client returned;
\* an exception of the client is caught and gives None.
ValidatedProduct(outcome) ==
    IF outcome.raised THEN None
    ELSE IF /\ outcome.product # None
            /\ Truthy(outcome.product[1].current_price)
            /\ outcome.product[1].current_price[1] > 0
         THEN outcome.product
         ELSE None

_try_paapi(sess, outcome) ==
    [session |-> [sess EXCEPT !.total_api_calls = @ + 1], ret |-> ValidatedProduct(outcome)]

_try_web_scraping(sess, outcome) ==
    [session |-> [sess EXCEPT !.total_scraping_calls = @ + 1], ret |-> ValidatedProduct(outcome)]

\* "if product:" that takes every answer for no product.
IsProductNever(product) == FALSE

\* "if product:" after each of the two attempts.
IsProduct(product) == product # None

\* results[asin] = value
DictSet(d, k, v) == [x \in DOMAIN d \cup {k} |-> IF x = k THEN v ELSE d[x]]

\* An accepted product that is not counted.
CountSuccessNot(sess) == sess

\* "self.session.total_products_successful += 1"
CountSuccess(sess) == [sess EXCEPT !.total_products_successful = @ + 1]

\* Step 3 without the count of the skip.
SkipStatsNoCount(st) == st

\* Step 3 of the loop body: the identifier is skipped.
SkipStats(st) == [st EXCEPT !.products_skipped = @ + 1]
add_error(sess, note) == [sess EXCEPT !.errors = Append(@, note)]

\* What the log keeps of a response of get_items.
ResponseKind(response) ==
    IF response.kind = "items"
    THEN (IF response.item.kind = "unparsable" THEN "unparsable_item" ELSE "item")
    ELSE response.kind

\* The loop that leaves an identifier whose first attempt failed for the next one.
OnPaapiFailureNextAsin(i) == [idx |-> i + 1, pc |-> "paapi"]

\* After "if product:" failed on the first attempt the body goes on, for the same
\* identifier, to "product = await self._try_web_scraping(asin)".
OnPaapiFailure(i) == [idx |-> i, pc |-> "scrape"]

\* The loop body up to the first attempt: the counters, then _try_paapi, which
\* awaits get_product_info of the structured source client; responses is what
\* get_items may answer.
PaapiStepOf(responses) ==
    /\ pc = "paapi"
    /\ idx <= Len(asins)
    /\ \E response \in responses :
        LET asin == asins[idx]
            counted == [session EXCEPT !.total_products_attempted = @ + 1]
            found == [stats EXCEPT !.asins_found = @ + 1]
            G == get_product_info(asin, response, MaxWait, clock, _last_request_time)
            T == _try_paapi(counted, [raised |-> G.raised, product |-> G.ret])
        IN /\ log' = Append(log, [client |-> "paapi", idx |-> idx, asin |-> asin,
                                   response |-> ResponseKind(response),
                                   raised |-> G.raised, ret |-> T.ret])
           /\ api_call' = G
           /\ clock' = G.end
           /\ _last_request_time' = G.last
           /\ api_calls' = Append(api_calls, [network |-> G.network, start |-> G.start,
                                               end |-> G.end])
           /\ IF IsProduct(T.ret)
              THEN /\ results' = DictSet(results, asin, T.ret)
                   /\ session' = CountSuccess(T.session)
                   /\ stats' = [found EXCEPT !.paapi_success = @ + 1]
                   /\ idx' = idx + 1
                   /\ pc' = "paapi"
              ELSE /\ results' = results
                   /\ session' = T.session
                   /\ stats' = found
                   /\ idx' = OnPaapiFailure(idx).idx
                   /\ pc' = OnPaapiFailure(idx).pc
    /\ UNCHANGED <<now, tasks, run_vars, scrape, asins, mgr_vars, fac_vars>>

PaapiStep == PaapiStepOf(PaapiResponses)

\* The rest of the loop body, from what scrape_product came to: _try_web_scraping
\* checks it, then the identifier is accepted or skipped.
FallbackReturns(outcome) ==
    LET asin == asins[idx]
        T == _try_web_scraping(session, outcome)
    IN /\ log' = Append(log, [client |-> "scraper", idx |-> idx, asin |-> asin, ret |-> T.ret])
       /\ IF IsProduct(T.ret)
          THEN /\ results' = DictSet(results, asin, T.ret)
               /\ session' = CountSuccess(T.session)
               /\ stats' = [stats EXCEPT !.scraping_success = @ + 1]
          ELSE /\ results' = DictSet(results, asin, None)
               /\ session' = add_error(T.session, asin)
               /\ stats' = SkipStats(stats)
       /\ idx' = idx + 1
       /\ pc' = "paapi"

\* The rest of the loop body in one step.  The call of scrape_product is taken
\* by what it comes to; it lasts at least the random delay of one attempt and
\* leaves no state in its client.
ScrapeStep ==
    /\ pc = "scrape"
    /\ \E outcome \in ClientOutcomes(asins[idx], "SCRAPED") : FallbackReturns(outcome)
    /\ clock' = clock + scraper_delay_min
    /\ UNCHANGED <<now, tasks, run_vars, _last_request_time, api_calls, api_call, scrape, asins, mgr_vars, fac_vars>>

\* The loop is over: return results.
ReturnResults ==
    /\ pc = "paapi"
    /\ idx > Len(asins)
    /\ pc' = "done"
    /\ UNCHANGED <<now, tasks, run_vars, cli_vars, asins, idx, results, session, stats, log, mgr_vars, fac_vars>>

InitResolve ==
    /\ ManagerIdle /\ FactoryIdle
    /\ now \in NowValues
    /\ StartIdle
    /\ ClientsIdle
    /\ asins \in SeqsUpTo(Asins, MaxAsins)
    /\ pc = "paapi"
    /\ idx = 1
    /\ results = <<>>
    /\ session = NewSession
    /\ stats = NewStats
    /\ log = <<>>

NextResolve == PaapiStep \/ ScrapeStep \/ ReturnResults

SpecResolve == InitResolve /\ [][NextResolve]_vars

----------------------------------------------------------------------------
(* Claims about get_real_product_data *)

\* C2: the fallback client is called for an identifier only right after the
\* structured source was called for the same identifier and gave nothing usable;
\* after a structured result with a positive price it is never called for it.
C2_ShortCircuit ==
    /\ \A k \in 1..Len(log) :
          log[k].client = "scraper" =>
              /\ k > 1
              /\ log[k - 1].client = "paapi"
              /\ log[k - 1].idx = log[k].idx
              /\ log[k - 1].ret = None
    /\ \A k, m \in 1..Len(log) :
          (log[k].client = "paapi" /\ log[k].ret # None /\ log[m].client = "scraper")
              => log[m].idx # log[k].idx
    /\ \A i \in 1..(idx - 1) :
          \E k \in 1..Len(log) :
              /\ log[k].client = "paapi" /\ log[k].idx = i
              /\ \A m \in 1..(k - 1) : log[m].idx # i

\* C2: a run in which one identifier was resolved by the structured source and
\* a later one went to the fallback.
C2_Witness ==
    /\ pc = "done"
    /\ \E k, m \in 1..Len(log) :
          /\ k < m
          /\ log[k].client = "paapi" /\ log[k].ret # None
          /\ log[m].client = "scraper"

\* The step that ends the resolution of an identifier with both sources failed.
BothFailedStep ==
    /\ Len(log') = Len(log) + 1
    /\ log'[Len(log')].client = "scraper"
    /\ log'[Len(log')].ret = None

\* The step in which the structured source fails for an identifier.
PaapiFailedStep ==
    /\ Len(log') = Len(log) + 1
    /\ log'[Len(log')].client = "paapi"
    /\ log'[Len(log')].ret = None

\* C3: when both sources fail for an identifier it is mapped to None, one skip
\* and one error note are recorded, the success counters stay, and no product
\* is ever stored that a client did not return with a positive price.
C3_SkipNoPlaceholder ==
    /\ [](\A a \in DOMAIN results :
            results[a] # None =>
                /\ \E k \in 1..Len(log) : log[k].asin = a /\ log[k].ret = results[a]
                /\ results[a][1].current_price # None
                /\ results[a][1].current_price[1] > 0)
    /\ [][/\ BothFailedStep =>
              /\ results'[asins[idx]] = None
              /\ stats'.products_skipped = stats.products_skipped + 1
              /\ Len(session'.errors) = Len(session.errors) + 1
              /\ stats'.paapi_success = stats.paapi_success
              /\ stats'.scraping_success = stats.scraping_success
              /\ session'.total_products_successful = session.total_products_successful
          /\ PaapiFailedStep =>
              /\ results' = results
              /\ stats'.products_skipped = stats.products_skipped
              /\ session'.errors = session.errors
              /\ stats'.paapi_success = stats.paapi_success
              /\ stats'.scraping_success = stats.scraping_success
              /\ session'.total_products_successful = session.total_products_successful]_vars

\* C3: a finished run in which an identifier failed both sources.
C3_Witness ==
    /\ pc = "done"
    /\ stats.products_skipped >= 1
    /\ \E a \in DOMAIN results : results[a] = None
    /\ \E k \in 1..Len(log) : log[k].client = "scraper" /\ log[k].ret = None

\* The responses of get_items that are a transport error, an empty response or
\* an item that cannot be parsed.
FaultKinds ==
    {"raises", "none", "no_items_result", "items_result_none", "no_items", "unparsable_item"}

\* C14: whatever get_items does, get_product_info does not raise; on a transport
\* error, an empty response or an unparsable item it returns None, and the next
\* call the orchestrator makes is the fallback, for the same identifier.
C14_NeverRaisesThenFallback ==
    /\ (api_call # NoCall) =>
          /\ ~api_call.raised
          /\ (ResponseKind(api_call.response) \in FaultKinds => api_call.ret = None)
    /\ \A k \in 1..Len(log) :
          (log[k].client = "paapi" /\ log[k].response \in FaultKinds) =>
              /\ ~log[k].raised
              /\ log[k].ret = None
              /\ IF k < Len(log)
                 THEN /\ log[k + 1].client = "scraper"
                      /\ log[k + 1].idx = log[k].idx
                      /\ log[k + 1].asin = log[k].asin
                 ELSE pc = "scrape" /\ idx = log[k].idx

\* C14: a finished run in which get_items raised for the first identifier and
\* returned an unparsable item for the second, and both went to the fallback.
C14_Witness ==
    /\ pc = "done"
    /\ Len(log) = 4
    /\ log[1].client = "paapi" /\ log[1].response = "raises"
    /\ log[2].client = "scraper" /\ log[2].idx = 1
    /\ log[3].client = "paapi" /\ log[3].response = "unparsable_item"
    /\ log[4].client = "scraper" /\ log[4].idx = 2

\* No identifier occurs twice in the list.
Distinct(list) == \A i, j \in 1..Len(list) : list[i] = list[j] => i = j

\* The identifiers the call counted as a success: a client returned a product
\* that was accepted for them.
CountedSuccesses == {log[k].asin : k \in {m \in 1..Len(log) : log[m].ret # None}}

\* Conservation of the counters when get_real_product_data has returned.
CountersConserved ==
    (pc = "done") =>
        /\ session.total_products_attempted = Len(asins)
        /\ Len(asins) = stats.paapi_success + stats.scraping_success + stats.products_skipped
        /\ session.total_products_successful = stats.paapi_success + stats.scraping_success
        /\ DOMAIN results = {asins[i] : i \in 1..Len(asins)}
        /\ {a \in DOMAIN results : results[a] # None} = CountedSuccesses
        /\ Cardinality(CountedSuccesses) = session.total_products_successful

\* C23 as stated, for any list: attempted = number of identifiers = structured
\* successes + fallback successes + skipped, successful = the two successes, and
\* the result maps exactly the identifiers counted as successes to products.
C23_CounterConservationAnyList == CountersConserved

\* C23 for a list of distinct identifiers, which is what scrape_deals hands over.
C23_CounterConservation == Distinct(asins) => CountersConserved

\* C23: [X, Y] with X resolved by the structured source and Y failing both: one
\* product (X), 1 success and 1 skipped.
C23_Witness ==
    /\ pc = "done"
    /\ Len(asins) = 2 /\ asins[1] # asins[2]
    /\ Len(log) = 3
    /\ log[1].client = "paapi" /\ log[1].ret # None
    /\ log[3].client = "scraper" /\ log[3].ret = None
    /\ results[asins[1]] # None /\ results[asins[2]] = None
    /\ session.total_products_successful = 1
    /\ stats.products_skipped = 1

----------------------------------------------------------------------------
(* scraper/models.py: Deal.from_amazon_product *)

\* (text or default) of an Optional[str]
TextOr(x, default) == IF x # None /\ x[1] # <<>> THEN x[1] ELSE default

from_amazon_product(p, partner_tag, post, utcnow) ==
    IF ~Truthy(p.current_price) \/ p.current_price[1] <= 0
    THEN [raised |-> FALSE, ret |-> None]
    ELSE IF post = None
    THEN \* savingsguru_post.description of None: AttributeError, outside the try
         [raised |-> TRUE, ret |-> None]
    ELSE LET category == post[1].category
             description == TextOr(post[1].description, <<"Great deal on", p.title>>)
             featured == p.discount_percent # None /\ p.discount_percent[1] >= 40
             deal == [id |-> <<"deal", p.asin>>, title |-> p.title,
                      image_url |-> p.image_url, price |-> p.current_price[1],
                      original_price |-> IF Truthy(p.list_price) THEN p.list_price ELSE None,
                      discount_percent |-> p.discount_percent,
                      category |-> category, description |-> description,
                      affiliate_url |-> AffiliateUrl(p.asin, partner_tag),
                      featured |-> featured,
                      date_added |-> [iso |-> TRUE, t |-> utcnow],
                      data_source |-> p.data_source, asin |-> p.asin]
         IN \* cls(...) inside the try: a validation error gives None
            IF ValidDeal(deal) THEN [raised |-> FALSE, ret |-> Some(deal)]
            ELSE [raised |-> FALSE, ret |-> None]

Products ==
    {MkProduct("A", price, list_price, discount, image, source) :
        price \in {None, Some(0), Some(20)}, list_price \in {None, Some(40)},
        discount \in {None, Some(30), Some(50)}, image \in {None, Some(ImageUrl)},
        source \in {"PAAPI", "SCRAPED"}}

Posts ==
    {None} \cup {Some([category |-> "Electronics", description |-> d]) :
                    d \in {None, Some(<<>>), Some(<<"Post", "text">>)}}

InitFactory ==
    /\ ManagerIdle /\ ScraperIdle
    /\ now \in NowValues
    /\ StartIdle
    /\ ClientsIdle
    /\ amazon_product \in Products
    /\ savingsguru_post \in Posts
    /\ made = NoCall

MakeDeal ==
    /\ made = NoCall
    /\ LET F == from_amazon_product(amazon_product, PartnerTag, savingsguru_post, now)
       IN made' = [fn |-> "from_amazon_product", raised |-> F.raised, ret |-> F.ret]
    /\ UNCHANGED <<now, tasks, run_vars, cli_vars, amazon_product, savingsguru_post, mgr_vars, res_vars>>

NextFactory == MakeDeal

SpecFactory == InitFactory /\ [][NextFactory]_vars

----------------------------------------------------------------------------
(* Claims about Deal.from_amazon_product *)

\* C4: from_amazon_product returns None and does not raise whenever the current
\* price of the product is missing or not positive, and whenever the entry it
\* would build fails the validation of Deal (here: no image).
C4_AbsentNeverRaises ==
    (/\ made.fn = "from_amazon_product"
     /\ \/ amazon_product.current_price = None
        \/ amazon_product.current_price[1] <= 0
        \/ amazon_product.image_url = None)
        => (~made.raised /\ made.ret = None)

----------------------------------------------------------------------------
(* Calls of get_product_info on one client, one after the other (SpecPaapi) *)

InitPaapi ==
    /\ ManagerIdle /\ ScraperIdle /\ FactoryIdle /\ ScrapeIdle
    /\ now \in NowValues
    /\ StartIdle
    /\ ApiIdle

InGetItems == api_call # NoCall /\ api_call.pc = "get_items"

\* The caller does something else for a while, then calls get_product_info.
CallGetProductInfo ==
    /\ ~InGetItems
    /\ Len(api_calls) < MaxCalls
    /\ \E asin \in ClientAsins, pause \in 0..MaxWait :
        LET G == get_product_info_begin(asin, clock + pause, _last_request_time)
        IN /\ api_call' = G
           /\ clock' = G.start
           /\ _last_request_time' = G.last
           /\ api_calls' = IF G.pc = "returned"
                           THEN Append(api_calls, [network |-> FALSE, start |-> G.start,
                                                   end |-> G.end])
                           ELSE api_calls
    /\ UNCHANGED <<now, tasks, run_vars, mgr_vars, res_vars, fac_vars, scrape>>

\* get_items comes back (or raises) and get_product_info returns.
GetItemsReturns ==
    /\ InGetItems
    /\ \E response \in PaapiResponses, duration \in 0..MaxWait :
        LET G == get_product_info_end(api_call, response, duration)
        IN /\ api_call' = G
           /\ clock' = G.end
           /\ api_calls' = Append(api_calls, [network |-> TRUE, start |-> G.start,
                                               end |-> G.end])
    /\ UNCHANGED <<now, tasks, run_vars, _last_request_time, mgr_vars, res_vars, fac_vars, scrape>>

NextPaapi == CallGetProductInfo \/ GetItemsReturns

SpecPaapi == InitPaapi /\ [][NextPaapi]_vars

----------------------------------------------------------------------------
(* Claims about AmazonAPIClient *)

\* An identifier of exactly AsinLength alphanumeric characters.
WellFormedAsin(a) == Len(chars(a)) = AsinLength /\ isalnum(a)

\* C12: for an identifier that is not exactly 10 alphanumeric characters,
\* get_product_info returns None at once: it does not reach get_items and it
\* does not wait in the rate limit.
C12_MalformedNoNetwork ==
    (api_call # NoCall /\ ~WellFormedAsin(api_call.asin)) =>
        /\ api_call.pc = "returned"
        /\ ~api_call.network
        /\ api_call.ret = None
        /\ api_call.start = api_call.arrived
        /\ api_call.end = api_call.arrived

\* Calls k and m of the log reached get_items, and no call between them did.
ConsecutiveNetworkCalls(k, m) ==
    /\ k < m
    /\ api_calls[k].network /\ api_calls[m].network
    /\ \A j \in (k + 1)..(m - 1) : ~api_calls[j].network

\* C13 as stated: of two consecutive calls of get_items on one client the later
\* begins at least api_rate_limit_delay after the END of the earlier.
C13_DelayFromEnd ==
    \A k, m \in 1..Len(api_calls) :
        ConsecutiveNetworkCalls(k, m) =>
            api_calls[m].start >= api_calls[k].end + api_rate_limit_delay

\* The step in which a call of get_product_info leaves _throttle_request.
LeavesThrottle == api_call' # api_call /\ api_call'.pc = "get_items"

\* C13, amended: of two consecutive calls of get_items on one client the later
\* begins at least api_rate_limit_delay after the BEGINNING of the earlier; a call
\* that arrives sooner is suspended until exactly then, one that arrives later
\* is not suspended.
C13_DelayFromStart ==
    /\ [](\A k, m \in 1..Len(api_calls) :
            ConsecutiveNetworkCalls(k, m) =>
                api_calls[m].start >= api_calls[k].start + api_rate_limit_delay)
    /\ [][LeavesThrottle =>
            /\ api_call'.start =
                  IF api_call'.arrived < _last_request_time + api_rate_limit_delay
                  THEN _last_request_time + api_rate_limit_delay
                  ELSE api_call'.arrived
            /\ _last_request_time' = api_call'.start]_vars

\* C13: a second call arrived within the delay of the first, which had taken
\* time, and was suspended.
C13_Witness ==
    /\ Len(api_calls) = 2
    /\ ConsecutiveNetworkCalls(1, 2)
    /\ api_calls[1].end > api_calls[1].start
    /\ api_call.arrived < api_call.start
    /\ api_call.start = api_calls[1].start + api_rate_limit_delay

----------------------------------------------------------------------------
(* Tasks that call get_product_info on one client concurrently             *)
(* (SpecThrottle).  The event loop runs one task at a time, from one await *)
(* to the next; the only await of get_product_info is the asyncio.sleep of *)
(* _throttle_request, and get_items is an ordinary call that holds the     *)
(* loop until it is back.                                                  *)

\* The first half of _throttle_request: sleep_time, or 0 when the delay has
\* passed and the method does not sleep.
ThrottleSleepTime(clk, last) ==
    LET time_since_last_request == clk - last
    IN IF time_since_last_request < api_rate_limit_delay
       THEN api_rate_limit_delay - time_since_last_request
       ELSE 0

\* The rest of get_product_info once _throttle_request is past its sleep, at
\* time clk: _last_request_time is set and get_items takes duration ticks.
ThrottleDone(task, clk, duration) ==
    [task EXCEPT !.pc = "returned", !.start = clk, !.end = clk + duration]

InitThrottle ==
    /\ ManagerIdle /\ ScraperIdle /\ FactoryIdle /\ ScrapeIdle
    /\ now \in NowValues
    /\ StartIdle
    /\ ApiIdle

NoTaskBegun == \A t \in Tasks : tasks[t].pc = "idle"

\* A call of get_product_info that is over before any task begins.
EarlierCall ==
    /\ NoTaskBegun
    /\ api_calls = <<>>
    /\ \E response \in {[kind |-> "raises"], [kind |-> "no_items"]}, duration \in 0..MaxWait :
        LET G == get_product_info("A", response, duration, clock, _last_request_time)
        IN /\ api_call' = G
           /\ clock' = G.end
           /\ _last_request_time' = G.last
           /\ api_calls' = <<[network |-> G.network, start |-> G.start, end |-> G.end]>>
    /\ UNCHANGED <<now, tasks, mgr_vars, res_vars, fac_vars, scrape, run_vars>>

\* Time passes while no task runs.
Pause ==
    /\ clock < MaxClock
    /\ clock' = clock + 1
    /\ UNCHANGED <<now, tasks, _last_request_time, api_calls, api_call, mgr_vars, res_vars,
                   fac_vars, scrape, run_vars>>

\* A task calls get_product_info and runs until asyncio.sleep suspends it, or,
\* when it need not sleep, to the return.
TaskCalls(t) ==
    /\ tasks[t].pc = "idle"
    /\ clock <= MaxClock
    /\ LET sleep_time == ThrottleSleepTime(clock, _last_request_time)
           arrived == [tasks[t] EXCEPT !.arrived = clock]
       IN IF sleep_time > 0
          THEN /\ tasks' = [tasks EXCEPT ![t] = [arrived EXCEPT !.pc = "sleeping",
                                                                !.wake = clock + sleep_time]]
               /\ UNCHANGED <<clock, _last_request_time, api_calls>>
          ELSE \E duration \in 0..MaxWait :
                  /\ tasks' = [tasks EXCEPT ![t] = ThrottleDone(arrived, clock, duration)]
                  /\ _last_request_time' = clock
                  /\ clock' = clock + duration
                  /\ api_calls' = Append(api_calls, [network |-> TRUE, start |-> clock,
                                                     end |-> clock + duration])
    /\ UNCHANGED <<now, api_call, mgr_vars, res_vars, fac_vars, scrape, run_vars>>

\* The loop resumes a task whose sleep is over (when every task sleeps, time
\* passes until the first of them can wake); the task sets _last_request_time
\* and calls get_items.
TaskWakes(t) ==
    /\ tasks[t].pc = "sleeping"
    /\ \/ tasks[t].wake <= clock
       \/ \A u \in Tasks : tasks[u].pc = "sleeping" => tasks[t].wake <= tasks[u].wake
    /\ LET woke == IF tasks[t].wake <= clock THEN clock ELSE tasks[t].wake
       IN \E duration \in 0..MaxWait :
              /\ tasks' = [tasks EXCEPT ![t] = ThrottleDone(tasks[t], woke, duration)]
              /\ _last_request_time' = woke
              /\ clock' = woke + duration
              /\ api_calls' = Append(api_calls, [network |-> TRUE, start |-> woke,
                                                 end |-> woke + duration])
    /\ UNCHANGED <<now, api_call, mgr_vars, res_vars, fac_vars, scrape, run_vars>>

NextThrottle ==
    \/ EarlierCall
    \/ Pause
    \/ \E t \in Tasks : TaskCalls(t)
    \/ \E t \in Tasks : TaskWakes(t)

SpecThrottle == InitThrottle /\ [][NextThrottle]_vars

\* Both tasks were suspended in _throttle_request at the same time, and both
\* have made their call of get_items.
SuspendedTogether(t, u) ==
    /\ t # u
    /\ tasks[t].pc = "returned" /\ tasks[u].pc = "returned"
    /\ tasks[t].wake > tasks[t].arrived /\ tasks[u].wake > tasks[u].arrived
    /\ tasks[t].arrived < tasks[u].start
    /\ tasks[u].arrived < tasks[t].start

\* C29: the calls of get_items of two tasks that were suspended in
\* _throttle_request at the same time begin at least api_rate_limit_delay apart.
C29_RateLimitUnderInterleaving ==
    \A t, u \in Tasks :
        (SuspendedTogether(t, u) /\ tasks[t].start <= tasks[u].start)
        => tasks[u].start >= tasks[t].start + api_rate_limit_delay

----------------------------------------------------------------------------
(* scraper/scraper_fallback.py: AmazonScrapingClient *)

\* A fetched page, as BeautifulSoup shows it: whether its text holds a blocking
\* phrase, whether it has a product landmark, the length of the text of its
\* title element (0: none), and the numbers read from the texts of its current
\* price elements, of its price-like text nodes and of its list price elements,
\* in document order (None: a text without a number).
Page(blocked, landmark, title_len, prices, alt_prices, list_prices) ==
    [blocked |-> blocked, landmark |-> landmark, title_len |-> title_len,
     prices |-> prices, alt_prices |-> alt_prices, list_prices |-> list_prices]

Pages ==
    {Page(TRUE, TRUE, 20, <<Some(20)>>, <<>>, <<>>),            \* a captcha page
     Page(FALSE, FALSE, 0, <<>>, <<>>, <<>>),                   \* neither blocked nor a product
     Page(FALSE, FALSE, 20, <<Some(20)>>, <<>>, <<>>),          \* the same, with a title and a price
     Page(FALSE, TRUE, 20, <<Some(20)>>, <<>>, <<Some(40)>>),
     Page(FALSE, TRUE, 20, <<Some(0), Some(20)>>, <<>>, <<Some(10)>>),
     Page(FALSE, TRUE, 20, <<None>>, <<Some(20)>>, <<>>),
     Page(FALSE, TRUE, 20, <<Some(0)>>, <<Some(0)>>, <<Some(40)>>), \* a title, no valid price
     Page(FALSE, TRUE, 20, <<>>, <<>>, <<>>),                   \* a title, no price at all
     Page(FALSE, TRUE, 4, <<Some(20)>>, <<>>, <<>>),            \* a title too short
     Page(FALSE, TRUE, 0, <<Some(20)>>, <<>>, <<>>)}            \* no title

\* What self.client.get does: a response with a status code (200 with a page),
\* a timeout, or another exception.
FetchOutcomes ==
    {[kind |-> "status", code |-> c] : c \in {503, 403, 429, 404, 500}}
    \cup {[kind |-> "timeout"], [kind |-> "error"]}
    \cup {[kind |-> "page", code |-> 200, page |-> p] : p \in Pages}

\* The first number > 0 among the texts of the elements (the loops of
\* _extract_current_price, _extract_list_price and _extract_price_alternative).
RECURSIVE FirstPositive(_, _)
FirstPositive(texts, i) ==
    IF i > Len(texts) THEN None
    ELSE IF Truthy(texts[i]) /\ texts[i][1] > 0 THEN texts[i]
    ELSE FirstPositive(texts, i + 1)

\* A check that looks for the landmarks only.
_is_valid_product_page_by_landmark(soup) == soup.landmark

_is_valid_product_page(soup) == IF soup.blocked THEN FALSE ELSE soup.landmark

\* "title and len(title) > 5"
_extract_title(soup) == IF soup.title_len > 5 THEN Some("Title") ELSE None

\* The price check that lets every product through.
NoValidPriceNever(current_price) == FALSE

\* "if not current_price or current_price <= 0"
NoValidPrice(current_price) == ~Truthy(current_price) \/ current_price[1] <= 0

\* The try block of _extract_product_data.
ExtractBody(soup, asin) ==
    LET title == _extract_title(soup)
        first_price == FirstPositive(soup.prices, 1)
        list_price == FirstPositive(soup.list_prices, 1)
        current_price == IF ~Truthy(first_price) THEN FirstPositive(soup.alt_prices, 1)
                         ELSE first_price
        discount_percent ==
            IF Truthy(current_price) /\ Truthy(list_price) /\ list_price[1] > current_price[1]
            THEN Some(DiscountOf(current_price[1], list_price[1])) ELSE None
        product == [asin |-> asin, title |-> "Title", current_price |-> current_price,
                    list_price |-> list_price, discount_percent |-> discount_percent,
                    image_url |-> Some(ImageUrl), data_source |-> "SCRAPED"]
    IN IF title = None THEN [raised |-> FALSE, ret |-> None]
       ELSE IF NoValidPrice(current_price) THEN [raised |-> FALSE, ret |-> None]
       ELSE IF ValidProduct(product)
            THEN [raised |-> FALSE, ret |-> Some([product EXCEPT !.asin = upper(asin)])]
            ELSE [raised |-> TRUE, ret |-> None]

_extract_product_data(soup, asin) == ExceptReturnNone(ExtractBody(soup, asin))

Pow(b, n) == IF n = 0 THEN 1 ELSE IF n = 1 THEN b ELSE IF n = 2 THEN b * b ELSE b * b * b

\* The sleep after a fetch, in ticks; jitter is what random.uniform gave.
\*   503: (2 ** attempt) + uniform(1, 3);  403, 429: (3 ** attempt) + uniform(2, 5);
\*   a timeout or an exception: 2 ** attempt, except after the last attempt.
Backoff(outcome, attempt, jitter) ==
    IF outcome.kind = "status" /\ outcome.code = 503 THEN 2 * Pow(2, attempt) + jitter
    ELSE IF outcome.kind = "status" /\ outcome.code \in {403, 429}
         THEN 2 * Pow(3, attempt) + jitter
    ELSE IF outcome.kind \in {"timeout", "error"} /\ attempt < max_retry_attempts - 1
         THEN 2 * Pow(2, attempt)
    ELSE 0

\* What random.uniform can give for the backoff after the outcome, in ticks (its
\* two ends); a sleep without jitter has the one value 0.
Jitters(outcome) ==
    IF outcome.kind = "status" /\ outcome.code = 503 THEN {2, 6}
    ELSE IF outcome.kind = "status" /\ outcome.code \in {403, 429} THEN {4, 10}
    ELSE {0}

\* A client that takes every status for one to retry.
RetryableAny(code) == TRUE

\* The statuses with a branch that backs off and continues; any other status
\* that is not 200 goes to "else: break".
Retryable(code) == code \in {503, 403, 429}

\* What the call keeps of a fetch: its kind, the status code (0: none), and for
\* a page whether it holds a blocking phrase and whether it has a landmark.
FetchRecord(outcome) ==
    [kind |-> outcome.kind,
     code |-> IF outcome.kind \in {"status", "page"} THEN outcome.code ELSE 0,
     blocked |-> outcome.kind = "page" /\ outcome.page.blocked,
     landmark |-> outcome.kind = "page" /\ outcome.page.landmark]

\* A sleep of the call: the random delay before the fetch of an attempt, or the
\* backoff after it.
Sleep(why, ticks, attempt) == [why |-> why, ticks |-> ticks, attempt |-> attempt]

\* A loop that runs once more than range(max_retry_attempts).
InRangeOneMore(attempt) == attempt <= max_retry_attempts

\* "for attempt in range(self.settings.max_retry_attempts)"
InRange(attempt) == attempt < max_retry_attempts

\* scrape_product up to the loop: the format check.
scrape_product_begin(asin) ==
    IF InvalidAsinFormat(asin)
    THEN [fn |-> "scrape_product", pc |-> "returned", asin |-> asin, attempt |-> 0,
          fetched |-> <<>>, slept |-> <<>>, page |-> None, raised |-> FALSE, ret |-> None]
    ELSE [fn |-> "scrape_product", pc |-> "attempt", asin |-> asin, attempt |-> 0,
          fetched |-> <<>>, slept |-> <<>>, page |-> None, raised |-> FALSE, ret |-> None]

\* One pass of the loop of scrape_product, and the return after the loop when
\* the pass was the last.
scrape_attempt(c, delay, outcome, jitter) ==
    LET fetched == Append(c.fetched, FetchRecord(outcome))
        delayed == Append(c.slept, Sleep("delay", delay, c.attempt))
        backoff == Backoff(outcome, c.attempt, jitter)
        retried == [c EXCEPT !.fetched = fetched,
                             !.slept = IF backoff > 0
                                       THEN Append(delayed, Sleep("backoff", backoff, c.attempt))
                                       ELSE delayed,
                             !.attempt = c.attempt + 1,
                             !.pc = IF InRange(c.attempt + 1) THEN "attempt" ELSE "returned"]
    IN IF outcome.kind = "page" /\ _is_valid_product_page(outcome.page)
       THEN [c EXCEPT !.fetched = fetched, !.slept = delayed, !.pc = "returned",
                      !.page = Some(outcome.page),
                      !.ret = _extract_product_data(outcome.page, c.asin).ret]
       ELSE IF outcome.kind = "status" /\ ~Retryable(outcome.code)
       THEN [c EXCEPT !.fetched = fetched, !.slept = delayed, !.pc = "returned"]
       ELSE retried

SleptTicks(c0, c1) ==
    LET new == SubSeq(c1.slept, Len(c0.slept) + 1, Len(c1.slept))
    IN IF Len(new) = 0 THEN 0
       ELSE IF Len(new) = 1 THEN new[1].ticks
       ELSE new[1].ticks + new[2].ticks

----------------------------------------------------------------------------
(* One call of scrape_product (SpecScrape) *)

InitScrape ==
    /\ ManagerIdle /\ ScraperIdle /\ FactoryIdle /\ ApiIdle
    /\ now \in NowValues
    /\ StartIdle
    /\ ScrapeIdle

CallScrapeProduct ==
    /\ scrape = NoCall
    /\ \E asin \in ClientAsins : scrape' = scrape_product_begin(asin)
    /\ UNCHANGED <<now, tasks, run_vars, api_vars, mgr_vars, res_vars, fac_vars>>

\* One pass of the loop: delays is what random.uniform may give for the delay
\* before the fetch, outcomes what the fetch may come to.
ScrapeAttemptOf(delays, outcomes) ==
    /\ scrape # NoCall
    /\ scrape.pc = "attempt"
    /\ \E delay \in delays, outcome \in outcomes :
        \E jitter \in Jitters(outcome) :
            /\ scrape' = scrape_attempt(scrape, delay, outcome, jitter)
            /\ clock' = clock + SleptTicks(scrape, scrape')
    /\ UNCHANGED <<now, tasks, run_vars, _last_request_time, api_calls, api_call, mgr_vars, res_vars, fac_vars>>

ScrapeAttempt == ScrapeAttemptOf({scraper_delay_min, scraper_delay_max}, FetchOutcomes)

NextScrape == CallScrapeProduct \/ ScrapeAttempt

SpecScrape == InitScrape /\ [][NextScrape]_vars

----------------------------------------------------------------------------
(* Claims about AmazonScrapingClient *)

IsDelay(sleep) == sleep.why = "delay"

\* C15: a call of scrape_product fetches the page at most max_retry_attempts
\* times, with one random delay before each fetch; when every fetch is answered
\* 503 it fetches exactly max_retry_attempts times and returns None.
C15_BoundedRetries ==
    (scrape # NoCall) =>
        /\ Len(scrape.fetched) <= max_retry_attempts
        /\ Len(SelectSeq(scrape.slept, IsDelay)) = Len(scrape.fetched)
        /\ (/\ scrape.pc = "returned"
            /\ scrape.fetched # <<>>
            /\ \A i \in 1..Len(scrape.fetched) : scrape.fetched[i].code = 503)
           => (/\ Len(scrape.fetched) = max_retry_attempts
               /\ scrape.ret = None
               /\ ~scrape.raised)

\* C15: a call that was answered 503 every time has returned.
C15_Witness ==
    /\ scrape # NoCall
    /\ scrape.pc = "returned"
    /\ Len(scrape.fetched) = max_retry_attempts
    /\ \A i \in 1..Len(scrape.fetched) : scrape.fetched[i].code = 503
    /\ scrape.ret = None

HasPositive(texts) == \E i \in 1..Len(texts) : texts[i] # None /\ texts[i][1] > 0

\* C16: what scrape_product returns is None or a product whose current price
\* is present and > 0 and whose provenance is SCRAPED; for a product page with a
\* title and no price > 0 anywhere it returns None.
C16_PositivePriceOrNone ==
    (scrape # NoCall /\ scrape.pc = "returned") =>
        /\ ~scrape.raised
        /\ (scrape.ret # None =>
               /\ scrape.ret[1].current_price # None
               /\ scrape.ret[1].current_price[1] > 0
               /\ scrape.ret[1].data_source = "SCRAPED")
        /\ (/\ scrape.page # None
            /\ ~HasPositive(scrape.page[1].prices)
            /\ ~HasPositive(scrape.page[1].alt_prices))
           => scrape.ret = None

\* C16: a valid product page with a title and only a price of 0 was fetched, and
\* the call returned None.
C16_Witness ==
    /\ scrape # NoCall
    /\ scrape.pc = "returned"
    /\ scrape.page # None
    /\ scrape.page[1].title_len > 5
    /\ scrape.page[1].prices = <<Some(0)>>
    /\ ~HasPositive(scrape.page[1].alt_prices)
    /\ scrape.ret = None

\* C25: a fetch answered with a status other than 200, 503, 403 and 429 is the
\* last fetch of the call: no backoff sleep follows it, and the call has
\* returned None.
C25_NonRetryableStops ==
    (scrape # NoCall) =>
        \A i \in 1..Len(scrape.fetched) :
            (/\ scrape.fetched[i].kind = "status"
             /\ scrape.fetched[i].code \notin {200, 503, 403, 429})
            => /\ i = Len(scrape.fetched)
               /\ scrape.pc = "returned"
               /\ scrape.ret = None
               /\ ~scrape.raised
               /\ \A j \in 1..Len(scrape.slept) :
                      ~(scrape.slept[j].why = "backoff" /\ scrape.slept[j].attempt = i - 1)

\* C25: a call was answered 503 and then 404, and has returned.
C25_Witness ==
    /\ scrape # NoCall
    /\ scrape.pc = "returned"
    /\ Len(scrape.fetched) = 2
    /\ scrape.fetched[1].code = 503
    /\ scrape.fetched[2].code = 404
    /\ scrape.ret = None

InvalidPage(fetch) == fetch.kind = "page" /\ (fetch.blocked \/ ~fetch.landmark)

\* C26: a 200 answer whose page holds a blocking phrase, or neither a blocking
\* phrase nor a landmark, yields no product from its attempt; the next attempt
\* is made when one remains, and a call whose every attempt got such a page
\* returns None.
C26_BlockedPagesRetried ==
    (scrape # NoCall) =>
        /\ \A i \in 1..Len(scrape.fetched) :
               InvalidPage(scrape.fetched[i]) =>
                   /\ (i = Len(scrape.fetched) => scrape.ret = None /\ scrape.page = None)
                   /\ (i < max_retry_attempts /\ i = Len(scrape.fetched))
                      => (scrape.pc = "attempt" /\ scrape.attempt = i)
                   /\ (i = max_retry_attempts) => scrape.pc = "returned"
        /\ (/\ scrape.pc = "returned"
            /\ scrape.fetched # <<>>
            /\ \A i \in 1..Len(scrape.fetched) : InvalidPage(scrape.fetched[i]))
           => (/\ Len(scrape.fetched) = max_retry_attempts
               /\ scrape.ret = None
               /\ ~scrape.raised)

\* C26: every attempt of a call got a blocked or an ambiguous page, one of each
\* among them, and the call has returned.
C26_Witness ==
    /\ scrape # NoCall
    /\ scrape.pc = "returned"
    /\ Len(scrape.fetched) = max_retry_attempts
    /\ \A i \in 1..Len(scrape.fetched) : InvalidPage(scrape.fetched[i])
    /\ \E i \in 1..Len(scrape.fetched) : scrape.fetched[i].blocked
    /\ \E i \in 1..Len(scrape.fetched) :
           ~scrape.fetched[i].blocked /\ ~scrape.fetched[i].landmark
    /\ scrape.ret = None

\* The backoff sleeps of the call, each with the fetch it followed.
BackoffsOf(c) ==
    {[sleep |-> c.slept[j], after |-> c.fetched[c.slept[j].attempt + 1]] :
        j \in {n \in 1..Len(c.slept) : c.slept[n].why = "backoff"}}

\* C27: the backoff after a 503 at attempt k lies in [2^k + 1, 2^k + 3] seconds,
\* after a 403 or 429 in [3^k + 2, 3^k + 5], after a timeout it is 2^k; the
\* lower bounds grow with k, the delay after a 403 or 429 is never below the
\* lower bound after a 503, and a backoff is waited only when another attempt
\* follows it.  (One second is two ticks.)
C27_BackoffSchedule ==
    /\ \A k \in 0..(max_retry_attempts - 2) :
           /\ Pow(2, k) + 1 < Pow(2, k + 1) + 1
           /\ Pow(3, k) + 2 < Pow(3, k + 1) + 2
    /\ (scrape # NoCall) =>
           \A b \in BackoffsOf(scrape) :
               LET k == b.sleep.attempt
                   ticks == b.sleep.ticks
               IN /\ (b.after.kind = "status" /\ b.after.code = 503)
                     => (2 * (Pow(2, k) + 1) <= ticks /\ ticks <= 2 * (Pow(2, k) + 3))
                  /\ (b.after.kind = "status" /\ b.after.code \in {403, 429})
                     => /\ 2 * (Pow(3, k) + 2) <= ticks
                        /\ ticks <= 2 * (Pow(3, k) + 5)
                        /\ ticks >= 2 * (Pow(2, k) + 1)
                  /\ (b.after.kind = "timeout") => ticks = 2 * Pow(2, k)
                  /\ k + 1 < max_retry_attempts

----------------------------------------------------------------------------
(* scraper/focused_scraper.py: FocusedScraper.scrape_deals *)

\* post_lookup.get(asin): every identifier handed to get_real_product_data was
\* extracted from a post, so the lookup finds one.
PostOf(asin) == Some([category |-> "Electronics", description |-> None])

\* create_deals_from_products: the loop over products.items(), which is in the
\* order in which get_real_product_data assigned the identifiers.
RECURSIVE CreateFrom(_, _, _, _)
CreateFrom(products, order, i, utcnow) ==
    IF i > Len(order) THEN [raised |-> FALSE, ret |-> <<>>]
    ELSE IF products[order[i]] = None THEN CreateFrom(products, order, i + 1, utcnow)
    ELSE LET F == from_amazon_product(products[order[i]][1], PartnerTag, PostOf(order[i]), utcnow)
             rest == CreateFrom(products, order, i + 1, utcnow)
         IN IF F.raised \/ rest.raised THEN [raised |-> TRUE, ret |-> <<>>]
            ELSE [raised |-> FALSE,
                  ret |-> (IF F.ret # None THEN <<F.ret[1]>> ELSE <<>>) \o rest.ret]

create_deals_from_products(products, order, utcnow) == CreateFrom(products, order, 1, utcnow)

\* sorted(deals, key=lambda d: d.discount_percent or 0, reverse=True): stable.
DiscountInsert(sorted, d) ==
    LET k == Cardinality({i \in 1..Len(sorted) :
                 OrZero(sorted[i].discount_percent) >= OrZero(d.discount_percent)})
    IN SubSeq(sorted, 1, k) \o <<d>> \o SubSeq(sorted, k + 1, Len(sorted))

RECURSIVE SortedByDiscount(_, _)
SortedByDiscount(deals, n) ==
    IF n = 0 THEN <<>> ELSE DiscountInsert(SortedByDiscount(deals, n - 1), deals[n])

_sort_deals_by_discount(deals) == SortedByDiscount(deals, Len(deals))

\* A loop that features every entry with the discount, however many.
UnderFeaturedCapAlways(featured_count) == TRUE

\* "featured_count < 20"
UnderFeaturedCap(featured_count) == featured_count < 20

\* The first 20 entries with a discount of 40 or more are featured, the others not.
_mark_featured_deals(deals) ==
    LET sorted_deals == _sort_deals_by_discount(deals)
        Qualifies(d) == Truthy(d.discount_percent) /\ d.discount_percent[1] >= 40
    IN [i \in 1..Len(sorted_deals) |->
          [sorted_deals[i] EXCEPT !.featured =
              /\ Qualifies(sorted_deals[i])
              /\ UnderFeaturedCap(Cardinality({j \in 1..(i - 1) : Qualifies(sorted_deals[j])}))]]

\* A call of scrape_deals before its first step.  new_count is what it leaves in
\* stats['new_deals_scraped'], reconciled whether process_deals returned and the
\* catalog was written, products what get_real_product_data handed back.
NewRun ==
    [fn |-> "scrape_deals", pc |-> "start", products |-> None, new_count |-> None,
     reconciled |-> FALSE, raised |-> FALSE, ret |-> <<>>]

\* "return []", before the manager was reached or from the except clause.
ReturnEmpty(r) == [r EXCEPT !.pc = "returned", !.ret = <<>>]

\* The identifiers of a run: distinct (dict.fromkeys), in the order of the posts.
IdentifierPool == <<"A", "B", "C">>
RunAsinLists == {SubSeq(IdentifierPool, 1, n) : n \in 0..MaxAsins}

\* What scrape_savingsguru_posts comes to: it raises, or it gives posts that hold
\* these identifiers (none: no posts, or posts without identifiers).
PostOutcomes ==
    {[raised |-> TRUE, asins |-> <<>>]}
    \cup {[raised |-> FALSE, asins |-> l] : l \in RunAsinLists}

\* What the structured source does in a run: get_items raises, or returns an
\* item with a price, or one without offers.
RunResponses ==
    {[kind |-> "raises"],
     [kind |-> "items", item |-> [kind |-> "item", title |-> "Title",
                                  offers |-> Listing(Some(20), None, Some(40))]],
     [kind |-> "items", item |-> [kind |-> "item", title |-> "Title", offers |-> NoListings]]}

\* The fetch of the fallback times out (a retry after a backoff), is answered 404,
\* or gives a product page, with a price or without one.
RunFetchOutcomes ==
    {[kind |-> "status", code |-> 404], [kind |-> "timeout"],
     [kind |-> "page", code |-> 200,
      page |-> Page(FALSE, TRUE, 20, <<Some(20)>>, <<>>, <<Some(40)>>)],
     [kind |-> "page", code |-> 200, page |-> Page(FALSE, TRUE, 20, <<>>, <<>>, <<>>)]}

\* The catalog a run finds: none, two entries, or one entry more than the target.
RunFiles ==
    {AbsentFile,
     OkFile(<<DealData("A", 20, Some(50), FALSE, Old),
              DealData("B", 0, Some(5), TRUE, Unparsable)>>),
     OkFile([i \in 1..(target_deal_count + 1) |-> DealData("B", 20, None, FALSE, Recent)])}

InitRun ==
    /\ ScraperIdle /\ FactoryIdle /\ ClientsIdle
    /\ now \in NowValues
    /\ file \in RunFiles
    /\ existing_deals = <<>>
    /\ existing_asins = {}
    /\ call = NoCall
    /\ environ = [n \in EnvNames |-> None]
    /\ boot = NoCall
    /\ run = NewRun
    /\ mark = NoCall

\* Steps 1 and 2: the posts, their identifiers, and the two early returns.
ScrapePosts ==
    /\ run # NoCall
    /\ run.pc = "start"
    /\ \E posts \in PostOutcomes :
        IF posts.raised
        THEN /\ run' = ReturnEmpty(run)
             /\ session' = add_error(session, "Critical error")
             /\ UNCHANGED <<asins, pc>>
        ELSE IF posts.asins = <<>>
        THEN /\ run' = ReturnEmpty(run)
             /\ UNCHANGED <<asins, pc, session>>
        ELSE /\ run' = [run EXCEPT !.pc = "resolving"]
             /\ asins' = posts.asins
             /\ pc' = "paapi"
             /\ session' = session
    /\ UNCHANGED <<now, tasks, environ, boot, mark, cli_vars, idx, results, stats, log, mgr_vars, fac_vars>>

RunPaapiStep == PaapiStepOf(RunResponses)

\* _try_web_scraping awaits scrape_product: the call begins.
BeginScrape ==
    /\ pc = "scrape"
    /\ scrape = NoCall
    /\ scrape' = scrape_product_begin(asins[idx])
    /\ UNCHANGED <<now, tasks, run_vars, api_vars, mgr_vars, res_vars, fac_vars>>

RunScrapeAttempt == ScrapeAttemptOf({scraper_delay_min}, RunFetchOutcomes)

\* scrape_product has returned: the rest of the loop body.
EndScrape ==
    /\ pc = "scrape"
    /\ scrape # NoCall
    /\ scrape.pc = "returned"
    /\ FallbackReturns([raised |-> scrape.raised, product |-> scrape.ret])
    /\ scrape' = NoCall
    /\ UNCHANGED <<now, tasks, run_vars, api_vars, asins, mgr_vars, fac_vars>>

\* Steps 4 to 7, after get_real_product_data returned: the new entries are
\* created, the manager processes them, the result is marked and written.  An
\* exception of any step is caught: the error is noted and [] returned.
Reconcile ==
    /\ run # NoCall
    /\ run.pc = "resolving"
    /\ pc = "done"
    /\ \E C \in {create_deals_from_products(results, asins, now)} :
       \E P \in {process_deals(C.ret, file, existing_deals, existing_asins, now)} :
       \E final_deals \in {_mark_featured_deals(P.ret)} :
       LET got == [run EXCEPT !.products = Some(results)]
       IN IF C.raised
          THEN /\ run' = ReturnEmpty(got)
               /\ session' = add_error(session, "Critical error")
               /\ UNCHANGED mgr_vars
          ELSE /\ call' = P
               /\ existing_deals' = P.existing_deals
               /\ existing_asins' = P.existing_asins
               /\ IF P.raised
                  THEN /\ run' = ReturnEmpty(got)
                       /\ session' = add_error(session, "Critical error")
                       /\ file' = file
                  ELSE /\ run' = [got EXCEPT !.pc = "returned", !.ret = final_deals,
                                              !.new_count = Some(Len(P.unique)),
                                              !.reconciled = TRUE]
                       /\ session' = session
                       /\ file' = OkFile(DumpDeals(final_deals))
    /\ UNCHANGED <<now, tasks, environ, boot, mark, cli_vars, asins, pc, idx, results, stats, log, fac_vars>>

\* The next run: a new process with a new DealManager, whose process_deals
\* begins with load_existing_deals on the document the last run left.
NextRunLoads ==
    /\ run # NoCall
    /\ run.pc = "returned"
    /\ run.reconciled
    /\ call.fn = "process_deals"
    /\ \E L \in {load_existing_deals(file, <<>>, {})} :
          /\ call' = [fn |-> "load_existing_deals", ret |-> L.ret]
          /\ existing_deals' = L.existing_deals
          /\ existing_asins' = L.existing_asins
    /\ UNCHANGED <<now, tasks, file, run_vars, cli_vars, res_vars, fac_vars>>

\* An interrupt while get_real_product_data is suspended in an await: the
\* exception (CancelledError, KeyboardInterrupt) is no Exception, so no except
\* clause of _try_paapi, _try_web_scraping or scrape_deals catches it; the frames
\* are unwound and main logs "Scraping interrupted by user".
Interrupt ==
    /\ run # NoCall
    /\ run.pc = "resolving"
    /\ pc \in {"paapi", "scrape"}
    /\ pc' = "cancelled"
    /\ run' = [run EXCEPT !.pc = "interrupted", !.raised = TRUE]
    /\ UNCHANGED <<now, tasks, environ, boot, mark, cli_vars, asins, idx, results, session, stats, log,
                   mgr_vars, fac_vars>>

NextRun ==
    \/ ScrapePosts
    \/ RunPaapiStep
    \/ BeginScrape
    \/ RunScrapeAttempt
    \/ EndScrape
    \/ ReturnResults
    \/ Reconcile
    \/ NextRunLoads

\* The event loop runs the one coroutine of the run: a step that can be taken
\* is taken (every sleep ends, every request returns, raises or times out).
SpecRun == InitRun /\ [][NextRun]_vars /\ WF_vars(NextRun)

SpecRunInterrupted == InitRun /\ [][NextRun \/ Interrupt]_vars

----------------------------------------------------------------------------
(* Claims about the run *)

\* The resolution of the identifier at position i has begun: a client was called
\* for it.
Begun(i) == \E k \in 1..Len(log) : log[k].idx = i

\* The resolution of the identifier at position i is complete: results holds it.
Completed(i) == i \in 1..Len(asins) /\ asins[i] \in DOMAIN results

\* C17: the resolution of an identifier begins only when those of all earlier
\* identifiers are complete, so at most one is in progress; the calls to the
\* clients are made in the order of the identifiers; a call of scrape_product in
\* progress, with its retries and sleeps, is for the one identifier in progress;
\* the calls of get_product_info do not overlap and none is made, nor is
\* _last_request_time touched, while a call of scrape_product is in progress.
C17_StrictlySequential ==
    /\ [](/\ \A i \in 1..Len(asins) :
                Begun(i) => \A j \in 1..(i - 1) : Completed(j)
          /\ Cardinality({i \in 1..Len(asins) : Begun(i) /\ ~Completed(i)}) <= 1
          /\ \A k, m \in 1..Len(log) : k < m => log[k].idx <= log[m].idx
          /\ (scrape # NoCall) =>
                /\ pc = "scrape"
                /\ scrape.asin = asins[idx]
                /\ Begun(idx) /\ ~Completed(idx)
                /\ log[Len(log)].client = "paapi" /\ log[Len(log)].idx = idx
          /\ \A k \in 1..(Len(api_calls) - 1) : api_calls[k].end <= api_calls[k + 1].start)
    /\ [][(scrape # NoCall) => UNCHANGED <<_last_request_time, api_calls, api_call>>]_vars

\* C17: the fallback for the second identifier is in a retry after a backoff
\* sleep, and the first identifier was resolved before.
C17_Witness ==
    /\ Len(asins) >= 2
    /\ idx = 2
    /\ Completed(1) /\ results[asins[1]] # None
    /\ scrape # NoCall
    /\ scrape.pc = "attempt"
    /\ scrape.attempt >= 1
    /\ \E i \in 1..Len(scrape.slept) : scrape.slept[i].why = "backoff"

\* C18: after an interrupt during the resolution no further identifier is
\* started, and every product accepted before the interrupt is in what
\* get_real_product_data delivered to the run.
C18_PartialProgressKept ==
    (run # NoCall /\ run.pc = "interrupted") =>
        /\ pc = "cancelled"
        /\ \A a \in DOMAIN results :
              results[a] # None =>
                  /\ run.products # None
                  /\ a \in DOMAIN run.products[1]
                  /\ run.products[1][a] = results[a]

\* The call of scrape_deals comes to its return.
EventuallyReturns == <>(run.pc = "returned")

\* There were identifiers, each was tried, and both sources failed for each.
ZeroResolved ==
    /\ asins # <<>>
    /\ \A i \in 1..Len(asins) : asins[i] \in DOMAIN results /\ results[asins[i]] = None

\* C20: every call of scrape_deals returns, and without raising; when there were
\* identifiers and none was resolved, it reports zero new entries and the
\* existing catalog has been processed by the manager and written.
C20_TerminatesCleanly ==
    /\ EventuallyReturns
    /\ [](run.pc = "returned" => ~run.raised)
    /\ []((run.pc = "returned" /\ ZeroResolved) =>
             (run.new_count = Some(0) /\ run.reconciled))

\* The call of scrape_deals wrote the catalog document, and the next run has
\* loaded it.
LoadedBack ==
    /\ run # NoCall
    /\ run.pc = "returned"
    /\ run.reconciled
    /\ call.fn = "load_existing_deals"

\* C30: the document scrape_deals leaves holds one entry for each entry of the
\* final list and no other; on the next run load_existing_deals reads back
\* every one of them, none skipped, in order, each with the identifier, price,
\* discount, featured flag and added-timestamp that was written.
C30_PersistenceRoundTrip ==
    (run # NoCall /\ run.pc = "returned" /\ run.reconciled) =>
        /\ file.kind = "ok"
        /\ Len(file.entries) = Len(run.ret)
        /\ \A i \in 1..Len(run.ret) : file.entries[i].asin = JStr(run.ret[i].asin)
        /\ LoadedBack =>
              /\ Len(call.ret) = Len(run.ret)
              /\ \A i \in 1..Len(run.ret) :
                     /\ call.ret[i].asin = run.ret[i].asin
                     /\ call.ret[i].price = run.ret[i].price
                     /\ call.ret[i].discount_percent = run.ret[i].discount_percent
                     /\ call.ret[i].featured = run.ret[i].featured
                     /\ call.ret[i].date_added = run.ret[i].date_added
              /\ existing_asins = AsinsOf(run.ret)

\* C30: a final list of two entries, one of them featured with a discount and
\* one with no discount, was written and loaded back.
C30_Witness ==
    /\ LoadedBack
    /\ Len(run.ret) = 2
    /\ Len(call.ret) = 2
    /\ \E i \in 1..2 : run.ret[i].featured /\ run.ret[i].discount_percent = Some(50)
    /\ \E i \in 1..2 : ~run.ret[i].featured /\ run.ret[i].discount_percent # Some(50)

----------------------------------------------------------------------------
(* scraper/settings.py and the entry points: the start of the process *)

CredentialNames == {"AMZ_ACCESS_KEY", "AMZ_SECRET_KEY", "AMZ_PARTNER_TAG"}

\* What the module-level fallback of settings.py writes into os.environ.
DummyValue(name) ==
    CASE name = "AMZ_ACCESS_KEY" -> "dummy_access_key"
      [] name = "AMZ_SECRET_KEY" -> "dummy_secret_key"
      [] name = "AMZ_PARTNER_TAG" -> "savingsgurucc-20"

\* A value that is the operator's own.
RealValue(name) ==
    CASE name = "AMZ_ACCESS_KEY" -> "AKIAEXAMPLE"
      [] name = "AMZ_SECRET_KEY" -> "secret"
      [] name = "AMZ_PARTNER_TAG" -> "mytag-20"

\* What a variable of the environment can hold when the process starts: it is
\* unset, empty, blank, the dummy value, or a real value.
EnvValues(name) ==
    IF name = "APP_ENV" THEN {None, Some("development"), Some("production")}
    ELSE {None, Some(""), Some(" "), Some(DummyValue(name)), Some(RealValue(name))}

Environments == {e \in [EnvNames -> UNION {EnvValues(n) : n \in EnvNames}] :
                    \A n \in EnvNames : e[n] \in EnvValues(n)}

\* v.strip()
strip(v) == IF v = " " THEN "" ELSE v

\* "if not v or v.strip() == '': raise ValueError"
validate_amazon_credentials(v) ==
    IF v = "" \/ strip(v) = "" THEN [raised |-> TRUE, ret |-> v] ELSE [raised |-> FALSE, ret |-> v]

\* Settings(): the three credentials are required fields read from the
\* environment; a missing one or one the validator rejects is a ValidationError.
Settings(env) ==
    IF \E n \in CredentialNames : env[n] = None \/ validate_amazon_credentials(env[n][1]).raised
    THEN [raised |-> TRUE, ret |-> None]
    ELSE [raised |-> FALSE,
          ret |-> Some([amz_access_key |-> env["AMZ_ACCESS_KEY"][1],
                        amz_secret_key |-> env["AMZ_SECRET_KEY"][1],
                        amz_partner_tag |-> env["AMZ_PARTNER_TAG"][1]])]

\* os.environ.setdefault(name, value), for each of the three names.
setdefault_dummies(env) ==
    [n \in EnvNames |-> IF n \in CredentialNames /\ env[n] = None THEN Some(DummyValue(n))
                        ELSE env[n]]

\* "development" in os.environ.get("APP_ENV", "development").lower()
IsDevelopment(env) == env["APP_ENV"] = None \/ env["APP_ENV"][1] = "development"

\* The module level of settings.py, run when an entry point imports it.
import_settings(env) ==
    LET first == Settings(env)
    IN IF ~first.raised THEN [raised |-> FALSE, environ |-> env]
       ELSE IF IsDevelopment(env)
            THEN [raised |-> Settings(setdefault_dummies(env)).raised,
                  environ |-> setdefault_dummies(env)]
            ELSE [raised |-> TRUE, environ |-> env]

\* validate_production_environment: the check of the credentials.
validate_production_environment(settings) ==
    ~(\/ settings.amz_access_key = ""
      \/ settings.amz_access_key = "dummy_access_key"
      \/ settings.amz_secret_key = ""
      \/ settings.amz_secret_key = "dummy_secret_key")

EntryPoints == {"focused_scraper", "run_production_scraper"}

InitConfig ==
    /\ ManagerIdle /\ ScraperIdle /\ FactoryIdle /\ ClientsIdle
    /\ now \in NowValues
    /\ run = NoCall
    /\ mark = NoCall
    /\ environ \in Environments
    /\ \E entry \in EntryPoints :
          boot = [fn |-> "start", entry |-> entry, pc |-> "import", given |-> environ,
                  settings |-> None]

\* "from scraper.settings import Settings" / "from .settings import Settings":
\* an exception of the module level ends the process.
ImportSettings ==
    /\ boot # NoCall
    /\ boot.pc = "import"
    /\ LET I == import_settings(environ)
       IN /\ environ' = I.environ
          /\ boot' = [boot EXCEPT !.pc = IF I.raised THEN "failed" ELSE "construct"]
    /\ UNCHANGED <<now, tasks, run, mark, cli_vars, mgr_vars, res_vars, fac_vars>>

\* "settings = Settings()" of run_production_scrape, "settings or Settings()" of
\* FocusedScraper.__init__ under main; both callers catch the exception and end.
BuildSettings ==
    /\ boot # NoCall
    /\ boot.pc = "construct"
    /\ LET S == Settings(environ)
       IN boot' = [boot EXCEPT !.settings = S.ret,
                               !.pc = IF S.raised THEN "failed"
                                      ELSE IF boot.entry = "run_production_scraper"
                                           THEN "validate" ELSE "ready"]
    /\ UNCHANGED <<now, tasks, environ, run, mark, cli_vars, mgr_vars, res_vars, fac_vars>>

\* run_production_scrape: "if not validate_production_environment(settings): return False"
ValidateEnvironment ==
    /\ boot # NoCall
    /\ boot.pc = "validate"
    /\ boot' = [boot EXCEPT !.pc = IF validate_production_environment(boot.settings[1])
                                   THEN "ready" ELSE "failed"]
    /\ UNCHANGED <<now, tasks, environ, run, mark, cli_vars, mgr_vars, res_vars, fac_vars>>

\* "await scraper.scrape_deals(...)": the run begins, and with it the requests.
StartScraping ==
    /\ boot # NoCall
    /\ boot.pc = "ready"
    /\ boot' = [boot EXCEPT !.pc = "scraping"]
    /\ run' = NewRun
    /\ UNCHANGED <<now, tasks, environ, mark, cli_vars, mgr_vars, res_vars, fac_vars>>

NextConfig == ImportSettings \/ BuildSettings \/ ValidateEnvironment \/ StartScraping

SpecConfig == InitConfig /\ [][NextConfig]_vars

----------------------------------------------------------------------------
(* Claims about the configuration *)

\* The credential was not set, is empty or blank, or is the dummy value.
EmptyOrPlaceholder(env, name) ==
    \/ env[name] = None
    \/ strip(env[name][1]) = ""
    \/ env[name][1] = DummyValue(name)

\* C19: when one of the three credentials the process was started with is
\* empty or a placeholder, scrape_deals is never begun; and no run is ever made
\* with a dummy credential.
C19_ConfigErrorsFatal ==
    (boot # NoCall /\ boot.pc = "scraping") =>
        /\ \A n \in CredentialNames : ~EmptyOrPlaceholder(boot.given, n)
        /\ boot.settings # None
        /\ boot.settings[1].amz_access_key # DummyValue("AMZ_ACCESS_KEY")
        /\ boot.settings[1].amz_secret_key # DummyValue("AMZ_SECRET_KEY")

----------------------------------------------------------------------------
(* Further claims about Deal.from_amazon_product *)

\* C21: for a product with a positive price and an image, from_amazon_product
\* returns an entry; without a post its category is "General" and its
\* description is made from the title; with a post it has the category of the
\* post, and the description of the post when that is not empty.
C21_FactoryDefaults ==
    (/\ made.fn = "from_amazon_product"
     /\ Truthy(amazon_product.current_price)
     /\ amazon_product.current_price[1] > 0
     /\ amazon_product.image_url # None)
        => /\ ~made.raised
           /\ made.ret # None
           /\ IF savingsguru_post = None
              THEN /\ made.ret[1].category = "General"
                   /\ made.ret[1].description = <<"Great deal on", amazon_product.title>>
              ELSE /\ made.ret[1].category = savingsguru_post[1].category
                   /\ made.ret[1].description =
                         TextOr(savingsguru_post[1].description,
                                <<"Great deal on", amazon_product.title>>)

----------------------------------------------------------------------------
(* FocusedScraper._mark_featured_deals, called on its own (SpecFeatured) *)

\* A list of low entries with the discount e followed by high entries with the
\* discounts d and 50 in turn; the price tells the entries apart, the featured
\* flag they come with is that of from_amazon_product or a stale one.
MixedDeals(low, high, e, d, stale) ==
    [i \in 1..(low + high) |->
        IF i <= low THEN MkDeal("A", i, e, stale, Recent)
        ELSE MkDeal("A", i, Some(IF i % 2 = 0 THEN d ELSE 50), ~stale, Recent)]

MarkInputs ==
    {MixedDeals(low, high, e, d, stale) :
        low \in 0..2, high \in 0..MaxMarked, e \in {None, Some(0), Some(39)},
        d \in {40, 50}, stale \in BOOLEAN}

InitFeatured ==
    /\ ManagerIdle /\ ScraperIdle /\ FactoryIdle /\ ClientsIdle
    /\ now \in NowValues
    /\ environ = [n \in EnvNames |-> None]
    /\ boot = NoCall
    /\ run = NoCall
    /\ mark = NoCall

MarkFeatured ==
    /\ mark = NoCall
    /\ \E deals \in MarkInputs :
          mark' = [fn |-> "_mark_featured_deals", arg |-> deals,
                   ret |-> _mark_featured_deals(deals)]
    /\ UNCHANGED <<now, tasks, environ, boot, run, cli_vars, mgr_vars, res_vars, fac_vars>>

NextFeatured == MarkFeatured

SpecFeatured == InitFeatured /\ [][NextFeatured]_vars

\* C22: in the list _mark_featured_deals returns at most 20 entries are
\* featured, every featured entry has a discount, of 40 or more, and no entry
\* that is not featured has a higher discount than a featured one.
C22_FeaturedBound ==
    (mark # NoCall) =>
        /\ Len(mark.ret) = Len(mark.arg)
        /\ Cardinality({i \in 1..Len(mark.ret) : mark.ret[i].featured}) <= 20
        /\ \A i \in 1..Len(mark.ret) :
              mark.ret[i].featured =>
                  /\ mark.ret[i].discount_percent # None
                  /\ mark.ret[i].discount_percent[1] >= 40
        /\ \A i, j \in 1..Len(mark.ret) :
              (mark.ret[i].featured /\ ~mark.ret[j].featured) =>
                  OrZero(mark.ret[j].discount_percent) <= OrZero(mark.ret[i].discount_percent)

\* C22: a list with more than 20 entries of discount 40 or more was marked: 20
\* are featured and one with such a discount is not.
C22_Witness ==
    /\ mark # NoCall
    /\ Cardinality({i \in 1..Len(mark.arg) :
          Truthy(mark.arg[i].discount_percent) /\ mark.arg[i].discount_percent[1] >= 40}) > 20
    /\ Cardinality({i \in 1..Len(mark.ret) : mark.ret[i].featured}) = 20
    /\ \E j \in 1..Len(mark.ret) :
          /\ ~mark.ret[j].featured
          /\ Truthy(mark.ret[j].discount_percent)
          /\ mark.ret[j].discount_percent[1] >= 40

====
